---- MODULE Spec2Model ----
(***************************************************************************)
(* Docker Log Viewer backend (src/backend/src/index.js, the authenticated  *)
(* server that starts at line 271): the access check hasContainerAccess,   *)
(* the token check shared by authMiddleware and the WebSocket auth         *)
(* message, the historical log route and the per-connection WebSocket      *)
(* handlers with their asynchronous docker calls, the routes behind        *)
(* authMiddleware with the users file, and the historical query from       *)
(* req.query to the page it answers (window options, parseDockerLogs,      *)
(* search filter, pagination), the relay of a live stream's chunks, errors *)
(* and end to its socket, and the list of live records that the client     *)
(* (src/frontend/src/App.js) keeps per container.                          *)
(*                                                                         *)
(* Strings that the code compares by prefix (container ids and names,      *)
(* allow-list entries) are sequences of one-character strings.             *)
(***************************************************************************)
EXTENDS Integers, Sequences, FiniteSets, Bags, TLC

VARIABLES
    authenticatedUser,   \* per connection: the user record, or NoUser (null / undefined)
    currentStream,       \* per connection: id of the stream held in currentStream, or 0 (null)
    currentContainerId,  \* per connection: the container reference, or Null
    wsState,             \* per connection: "absent" (never connected), "open" or "closed"
    pending,             \* per connection: bag of subscribe handlers suspended at an await
    streams,             \* every stream the log source has opened, in order of opening
    activeStreams,       \* the registry: container reference -> stream id (0: no entry)
    lastOp,              \* the handler step that ran last and what it emitted
    acUser, acRef, acName,  \* inputs of the access check (specification SpecAccess)
    cap,                 \* how many streams and suspended handlers a specification follows
    seen,                \* what a denied request was answered, per handler and per world
    usersFile,           \* data/users.json: the stored users, in file order
    saves,               \* how many times saveUsers has written the file
    now,                 \* Date.now()
    req,                 \* req.query of a request to the logs route
    src,                 \* the log entries the container has emitted, oldest first
    resp,                \* the response to the request
    prev,                \* the response to the same request made before
    asked,               \* the options of the last container.logs call
    strictSource,        \* whether the daemon refuses an option that is NaN
    sent,                \* the events the stream handlers sent to the clients, in order
    fed,                 \* the records decoded from the chunks of the streams, in order
    failed,              \* the streams that emitted 'error'
    ended,               \* the streams that emitted 'end'
    logsMap,             \* client: per container, the list of records it keeps
    selectedContainer,   \* client: the container whose live socket is open, or Null
    received,            \* client: per container, every live record that arrived for it
    openSockets,         \* client: the containers whose live socket is not closed
    pager,               \* client: isLoading, the pagination of the list, requests in flight
    silent,              \* the connections whose client has sent its last message
    hashing              \* user handlers suspended at "await bcrypt.hash"

vars == <<authenticatedUser, currentStream, currentContainerId, wsState, pending,
          streams, activeStreams, lastOp, acUser, acRef, acName, cap, seen,
          usersFile, saves, now, req, src, resp, prev,
          asked, strictSource, sent, fed, failed, ended, logsMap, selectedContainer,
          received, openSockets, pager, silent, hashing>>

wsVars == <<authenticatedUser, currentStream, currentContainerId, wsState, pending,
            streams, activeStreams>>

accessVars == <<acUser, acRef, acName, cap>>

storeVars == <<usersFile, saves, now>>

queryVars == <<req, src, resp, prev, asked, strictSource>>

relayVars == <<sent, fed, failed, ended>>

clientVars == <<logsMap, selectedContainer, received>>

lateVars == <<openSockets, pager, silent, hashing>>

liveVars == <<relayVars, clientVars, lateVars>>

paramVars == <<accessVars, seen, storeVars, queryVars, liveVars>>

\* ---------------------------------------------------------------- bounds

\* streams opened plus subscribe handlers in flight, over all connections
MaxStreams == 3

\* entries of the allow-lists the access check is tried on
MaxEntries == 2

\* writes of the users file that are followed
MaxSaves == 1

\* milliseconds the clock advances
MaxNow == 1

\* lines of a log
MaxLines == 3

\* ---------------------------------------------------------------- strings

Null == <<"null">>

STAR == <<"*">>
WEB == <<"w", "e", "b">>
WEB1 == <<"w", "e", "b", "-", "1">>
DB == <<"d", "b">>
GONE == <<"z">>
WA == <<"w", "a">>

\* String.prototype.startsWith
startsWith(s, p) ==
    /\ Len(p) <= Len(s)
    /\ \A i \in 1..Len(p) : s[i] = p[i]

\* Array.prototype.includes on an array of strings
includes(arr, x) == \E i \in 1..Len(arr) : arr[i] = x

\* ---------------------------------------------------------------- access check

\* a user record of users.json; hasAllowed is FALSE when the record has no
\* allowedContainers field (undefined)
User(id, role, hasAllowed, allowed) ==
    [id |-> id, role |-> role, hasAllowed |-> hasAllowed, allowedContainers |-> allowed]

\* authenticatedUser before a successful auth (null), or after users.find found
\* nobody (undefined): both are falsy
NoUser == User("none", "none", FALSE, <<>>)

\* a string is truthy unless it is null or empty
Truthy(str) == str # Null /\ Len(str) > 0

hasContainerAccess_NoReversePrefix(user, containerIdOrName, containerName) ==
    IF user.role = "admin" THEN TRUE
    ELSE IF ~user.hasAllowed \/ Len(user.allowedContainers) = 0 THEN FALSE
    ELSE IF includes(user.allowedContainers, STAR) THEN TRUE
    ELSE \E i \in 1..Len(user.allowedContainers) :
            LET allowed == user.allowedContainers[i] IN
            \/ Truthy(containerName) /\ allowed = containerName
            \/ allowed = containerIdOrName
            \/ startsWith(containerIdOrName, allowed)

hasContainerAccess_NoAdminRule(user, containerIdOrName, containerName) ==
    IF ~user.hasAllowed \/ Len(user.allowedContainers) = 0 THEN FALSE
    ELSE IF includes(user.allowedContainers, STAR) THEN TRUE
    ELSE \E i \in 1..Len(user.allowedContainers) :
            LET allowed == user.allowedContainers[i] IN
            \/ Truthy(containerName) /\ allowed = containerName
            \/ allowed = containerIdOrName
            \/ startsWith(containerIdOrName, allowed)
            \/ startsWith(allowed, containerIdOrName)

hasContainerAccess(user, containerIdOrName, containerName) ==
    IF user.role = "admin" THEN TRUE
    ELSE IF ~user.hasAllowed \/ Len(user.allowedContainers) = 0 THEN FALSE
    ELSE IF includes(user.allowedContainers, STAR) THEN TRUE
    ELSE \E i \in 1..Len(user.allowedContainers) :
            LET allowed == user.allowedContainers[i] IN
            IF Truthy(containerName) /\ allowed = containerName THEN TRUE
            ELSE IF allowed = containerIdOrName THEN TRUE
            ELSE IF startsWith(containerIdOrName, allowed)
                    \/ startsWith(allowed, containerIdOrName) THEN TRUE
            ELSE FALSE

\* GET /api/containers: whether container c stays in the listing sent to user
ListingKeeps(user, c) ==
    IF user.role # "admin"
       /\ ~(user.hasAllowed /\ includes(user.allowedContainers, STAR))
    THEN hasContainerAccess(user, c.fullId, c.name)
    ELSE TRUE

\* ---------------------------------------------------------------- directory, tokens, docker

\* users.json as loadUsers() reads it
loadUsers ==
    << User("1", "admin", TRUE, <<>>),
       User("2", "user", TRUE, <<WEB>>) >>

\* users.find(u => u.id === userId); NoUser when nobody has that id
findUser(userId) ==
    IF \E i \in 1..Len(loadUsers) : loadUsers[i].id = userId
    THEN loadUsers[CHOOSE i \in 1..Len(loadUsers) :
                     /\ loadUsers[i].id = userId
                     /\ \A j \in 1..(i - 1) : loadUsers[j].id # userId]
    ELSE NoUser

\* what a client can send as a token: nothing, a token signed with another
\* secret, an expired one, or a good one naming a user id ("9" is in no file)
Tokens ==
    { [kind |-> k, userId |-> "1"] : k \in {"missing", "badsig", "expired"} }
    \cup { [kind |-> "valid", userId |-> u] : u \in {"1", "2", "9"} }

\* jwt.verify(token, JWT_SECRET) returns the payload; FALSE stands for a throw
jwtVerifies(token) == token.kind = "valid"

\* the containers the docker daemon knows
Containers ==
    { [fullId |-> <<"a", "1">>, name |-> WEB],
      [fullId |-> <<"b", "2">>, name |-> DB] }

\* docker.getContainer(ref): the daemon resolves a reference by name, by id or
\* by a prefix of the id that fits one container
Resolves(ref, c) ==
    \/ c.name = ref
    \/ /\ Len(ref) > 0
       /\ startsWith(c.fullId, ref)
       /\ \A d \in Containers : startsWith(d.fullId, ref) => d = c

Exists(ref) == \E c \in Containers : Resolves(ref, c)

\* info.Name?.replace('/', '') || null of container.inspect()
inspectName(ref) ==
    LET c == CHOOSE c \in Containers : Resolves(ref, c) IN
    IF Len(c.name) > 0 THEN c.name ELSE Null

\* ---------------------------------------------------------------- WebSocket connections

Conns == {"c1", "c2"}

\* the container references a client names in a subscribe or a query
SubRefs == {WEB, DB, GONE}

\* one handler step and what it sent: out is the message or the HTTP status,
\* data the container whose log records it carried (Null: none)
Op(op, conn, ref, user, out, data) ==
    [op |-> op, conn |-> conn, ref |-> ref, user |-> user, out |-> out, data |-> data]

\* a subscribe handler suspended at an await: pc says at which one; user is
\* the id of the user the access check passed for ("none" before the check)
Handler(containerId, pc, containerName, user) ==
    [containerId |-> containerId, pc |-> pc, containerName |-> containerName, user |-> user]

Suspend(c, h) == [pending EXCEPT ![c] = @ (+) SetToBag({h})]

Resume(c, h) == [pending EXCEPT ![c] = @ (-) SetToBag({h})]

RECURSIVE CountPending(_)
CountPending(cs) ==
    IF cs = {} THEN 0
    ELSE LET c == CHOOSE x \in cs : TRUE IN
         BagCardinality(pending[c]) + CountPending(cs \ {c})

InFlight == CountPending(Conns)

\* ws.readyState === WebSocket.OPEN; messages arrive only on an open socket
wsOpen(c) == wsState[c] = "open"

\* stream.destroy() of the stream a connection holds (0: it holds none); a
\* destroyed stream relays nothing more, and only its connection is remembered
destroy(strs, sid) ==
    IF sid = 0 THEN strs
    ELSE [strs EXCEPT ![sid] = [conn |-> @.conn, containerId |-> Null,
                                user |-> "none", open |-> FALSE]]

\* activeStreams.delete(key)
mapDelete(map, key) ==
    IF key \in DOMAIN map THEN [map EXCEPT ![key] = 0] ELSE map

ReleaseCurrent_ByRegistry(c) ==
    IF currentStream[c] # 0
    THEN /\ streams' = IF currentContainerId[c] \in DOMAIN activeStreams
                       THEN destroy(streams, activeStreams[currentContainerId[c]])
                       ELSE streams
         /\ activeStreams' = mapDelete(activeStreams, currentContainerId[c])
    ELSE UNCHANGED <<streams, activeStreams>>


\* "if (currentStream) { currentStream.destroy(); activeStreams.delete(currentContainerId); }"
ReleaseCurrent(c) ==
    IF currentStream[c] # 0
    THEN /\ streams' = destroy(streams, currentStream[c])
         /\ activeStreams' = mapDelete(activeStreams, currentContainerId[c])
    ELSE UNCHANGED <<streams, activeStreams>>

\* the streams of connection c that were opened and not destroyed
OpenStreams(c) ==
    { i \in 1..Len(streams) : streams[i].conn = c /\ streams[i].open }

WsInit(connected) ==
    /\ authenticatedUser = [c \in Conns |-> NoUser]
    /\ currentStream = [c \in Conns |-> 0]
    /\ currentContainerId = [c \in Conns |-> Null]
    /\ wsState = [c \in Conns |-> IF c \in connected THEN "open" ELSE "absent"]
    /\ pending = [c \in Conns |-> EmptyBag]
    /\ streams = <<>>
    /\ activeStreams = [r \in SubRefs |-> 0]

AuthMsg_NoVerify(c, token) ==
    /\ wsOpen(c)
    /\ authenticatedUser' = [authenticatedUser EXCEPT ![c] = findUser(token.userId)]
    /\ lastOp' = Op("auth", c, <<token.kind>>, token.userId,
                    IF findUser(token.userId) # NoUser
                    THEN "auth success" ELSE "auth failed: User not found", Null)
    /\ UNCHANGED <<currentStream, currentContainerId, wsState, pending, streams,
                   activeStreams, paramVars>>

\* data.action === 'auth': jwt.verify throws before authenticatedUser is
\* assigned; users.find assigns the user or undefined. The op records the kind
\* of token in its ref field
AuthMsg(c, token) ==
    /\ wsOpen(c)
    /\ IF jwtVerifies(token)
       THEN /\ authenticatedUser' = [authenticatedUser EXCEPT ![c] = findUser(token.userId)]
            /\ lastOp' = Op("auth", c, <<token.kind>>, token.userId,
                            IF findUser(token.userId) # NoUser
                            THEN "auth success" ELSE "auth failed: User not found", Null)
       ELSE /\ UNCHANGED authenticatedUser
            /\ lastOp' = Op("auth", c, <<token.kind>>, token.userId,
                            "auth failed: Invalid token", Null)
    /\ UNCHANGED <<currentStream, currentContainerId, wsState, pending, streams,
                   activeStreams, paramVars>>

\* "if (!authenticatedUser)" of a message that is not auth
NotAuthenticated(c, op, ref) ==
    /\ authenticatedUser[c] = NoUser
    /\ lastOp' = Op(op, c, ref, "none", "error: Not authenticated", Null)
    /\ UNCHANGED <<wsVars, paramVars>>

SubscribeMsg_NoAuthGuard(c, containerId) ==
    /\ wsOpen(c)
    /\ Len(streams) + InFlight < cap
    /\ pending' = Suspend(c, Handler(containerId, "inspect", Null, "none"))
    /\ lastOp' = Op("subscribe", c, containerId, authenticatedUser[c].id, "await inspect", Null)
    /\ UNCHANGED <<authenticatedUser, currentStream, currentContainerId, wsState,
                   streams, activeStreams, paramVars>>

\* data.action === 'subscribe', up to "await container.inspect()"
SubscribeMsg(c, containerId) ==
    /\ wsOpen(c)
    /\ \/ NotAuthenticated(c, "subscribe", containerId)
       \/ /\ authenticatedUser[c] # NoUser
          /\ Len(streams) + InFlight < cap
          /\ pending' = Suspend(c, Handler(containerId, "inspect", Null, "none"))
          /\ lastOp' = Op("subscribe", c, containerId, authenticatedUser[c].id,
                          "await inspect", Null)
          /\ UNCHANGED <<authenticatedUser, currentStream, currentContainerId, wsState,
                         streams, activeStreams, paramVars>>

\* the await of container.inspect() rejects: 'Container not found'
InspectReject(c, h) ==
    /\ h.pc = "inspect"
    /\ ~Exists(h.containerId)
    /\ pending' = Resume(c, h)
    /\ lastOp' = Op("inspect", c, h.containerId, authenticatedUser[c].id,
                    "error: Container not found", Null)
    /\ UNCHANGED <<authenticatedUser, currentStream, currentContainerId, wsState,
                   streams, activeStreams, paramVars>>

\* the message of a denied subscribe
Denied == "error: Access denied to this container"

\* the access check of the subscribe handler
SubscribeCheck(user, containerId, containerName) ==
    hasContainerAccess(user, containerId, containerName)

\* authenticatedUser is read again after the await
SubscribeAllowed(c, h) ==
    SubscribeCheck(authenticatedUser[c], h.containerId, inspectName(h.containerId))

\* hasContainerAccess reads user.role of a null authenticatedUser: the TypeError
\* lands in the handler's catch, which sends it as an error message
AccessThrows(c, h) ==
    /\ authenticatedUser[c] = NoUser
    /\ pending' = Resume(c, h)
    /\ lastOp' = Op("check", c, h.containerId, "none", "error: TypeError", Null)
    /\ UNCHANGED <<authenticatedUser, currentStream, currentContainerId, wsState,
                   streams, activeStreams, paramVars>>

\* "if (!hasContainerAccess(...)) { ws.send(error); return; }"
AccessDenied(c, h) ==
    /\ authenticatedUser[c] # NoUser
    /\ ~SubscribeAllowed(c, h)
    /\ pending' = Resume(c, h)
    /\ lastOp' = Op("check", c, h.containerId, authenticatedUser[c].id,
                    Denied, Null)
    /\ UNCHANGED <<authenticatedUser, currentStream, currentContainerId, wsState,
                   streams, activeStreams, paramVars>>

\* access granted: release the previous stream, note the container, call
\* container.logs({follow: true, tail: 50}) and suspend at its await
SubscribeAccept(c, h) ==
    /\ authenticatedUser[c] # NoUser
    /\ SubscribeAllowed(c, h)
    /\ ReleaseCurrent(c)
    /\ currentContainerId' = [currentContainerId EXCEPT ![c] = h.containerId]
    /\ pending' = [pending EXCEPT ![c] =
                     (@ (-) SetToBag({h}))
                     (+) SetToBag({Handler(h.containerId, "logs",
                                           inspectName(h.containerId),
                                           authenticatedUser[c].id)})]
    /\ lastOp' = Op("accept", c, h.containerId, authenticatedUser[c].id, "await logs", Null)
    /\ UNCHANGED <<authenticatedUser, currentStream, wsState, paramVars>>

InspectResolve_ReleaseBeforeCheck(c, h) ==
    /\ h.pc = "inspect"
    /\ Exists(h.containerId)
    /\ \/ AccessThrows(c, h)
       \/ /\ authenticatedUser[c] # NoUser
          /\ ~SubscribeAllowed(c, h)
          /\ ReleaseCurrent(c)
          /\ pending' = Resume(c, h)
          /\ lastOp' = Op("check", c, h.containerId, authenticatedUser[c].id,
                          Denied, Null)
          /\ UNCHANGED <<authenticatedUser, currentStream, currentContainerId, wsState, paramVars>>
       \/ SubscribeAccept(c, h)

InspectResolve_NoCheck(c, h) ==
    /\ h.pc = "inspect"
    /\ Exists(h.containerId)
    /\ authenticatedUser[c] # NoUser
    /\ ReleaseCurrent(c)
    /\ currentContainerId' = [currentContainerId EXCEPT ![c] = h.containerId]
    /\ pending' = [pending EXCEPT ![c] =
                     (@ (-) SetToBag({h}))
                     (+) SetToBag({Handler(h.containerId, "logs",
                                           inspectName(h.containerId),
                                           authenticatedUser[c].id)})]
    /\ lastOp' = Op("accept", c, h.containerId, authenticatedUser[c].id, "await logs", Null)
    /\ UNCHANGED <<authenticatedUser, currentStream, wsState, paramVars>>

\* the await of container.inspect() resolves: the rest of the subscribe handler
\* up to "await container.logs(...)"
InspectResolve(c, h) ==
    /\ h.pc = "inspect"
    /\ Exists(h.containerId)
    /\ \/ AccessThrows(c, h)
       \/ AccessDenied(c, h)
       \/ SubscribeAccept(c, h)

\* the await of container.logs() resolves with the stream: it becomes the
\* connection's currentStream and the registry's entry for the container
LogsResolve(c, h) ==
    /\ h.pc = "logs"
    /\ streams' = Append(streams, [conn |-> c, containerId |-> h.containerId,
                                   user |-> h.user, open |-> TRUE])
    /\ currentStream' = [currentStream EXCEPT ![c] = Len(streams) + 1]
    /\ activeStreams' = [activeStreams EXCEPT ![h.containerId] = Len(streams) + 1]
    /\ pending' = Resume(c, h)
    /\ lastOp' = Op("open", c, h.containerId, h.user, "none", Null)
    /\ UNCHANGED <<authenticatedUser, currentContainerId, wsState, paramVars>>

\* the await of container.logs() rejects: the handler's catch sends the error
LogsReject(c, h) ==
    /\ h.pc = "logs"
    /\ pending' = Resume(c, h)
    /\ lastOp' = Op("logs", c, h.containerId, h.user, "error: logs failed", Null)
    /\ UNCHANGED <<authenticatedUser, currentStream, currentContainerId, wsState,
                   streams, activeStreams, paramVars>>

UnsubscribeMsg_KeepHandle(c) ==
    /\ wsOpen(c)
    /\ \/ NotAuthenticated(c, "unsubscribe", Null)
       \/ /\ authenticatedUser[c] # NoUser
          /\ ReleaseCurrent(c)
          /\ lastOp' = Op("unsubscribe", c, Null, authenticatedUser[c].id, "none", Null)
          /\ UNCHANGED <<authenticatedUser, currentStream, currentContainerId, wsState,
                         pending, paramVars>>

\* data.action === 'unsubscribe'
UnsubscribeMsg(c) ==
    /\ wsOpen(c)
    /\ \/ NotAuthenticated(c, "unsubscribe", Null)
       \/ /\ authenticatedUser[c] # NoUser
          /\ ReleaseCurrent(c)
          /\ IF currentStream[c] # 0
             THEN /\ currentStream' = [currentStream EXCEPT ![c] = 0]
                  /\ currentContainerId' = [currentContainerId EXCEPT ![c] = Null]
             ELSE UNCHANGED <<currentStream, currentContainerId>>
          /\ lastOp' = Op("unsubscribe", c, Null, authenticatedUser[c].id, "none", Null)
          /\ UNCHANGED <<authenticatedUser, wsState, pending, paramVars>>

\* ws.on('close')
Close(c) ==
    /\ wsOpen(c)
    /\ wsState' = [wsState EXCEPT ![c] = "closed"]
    /\ ReleaseCurrent(c)
    /\ lastOp' = Op("close", c, Null, authenticatedUser[c].id, "none", Null)
    /\ UNCHANGED <<authenticatedUser, currentStream, currentContainerId, pending, paramVars>>

\* stream.on('data'): the decoded records go out as log events while the
\* socket is open
StreamData(sid) ==
    /\ streams[sid].open
    /\ lastOp' = Op("data", streams[sid].conn, streams[sid].containerId, streams[sid].user,
                    IF wsOpen(streams[sid].conn) THEN "log" ELSE "none",
                    IF wsOpen(streams[sid].conn) THEN streams[sid].containerId ELSE Null)
    /\ UNCHANGED <<wsVars, paramVars>>

\* ---------------------------------------------------------------- historical route

\* the access check of GET /api/containers/:id/logs
QueryCheck(user, id, containerName) ==
    hasContainerAccess(user, id, containerName)

\* GET /api/containers/:id/logs behind authMiddleware: 401 without a user, 403
\* when the check denies, 500 when container.logs throws, else 200 with the
\* records of the container
GetContainerLogs(token, id) ==
    /\ lastOp' =
         IF ~jwtVerifies(token) \/ findUser(token.userId) = NoUser
         THEN Op("logs", "http", id, "none", "401", Null)
         ELSE IF ~QueryCheck(findUser(token.userId), id,
                             IF Exists(id) THEN inspectName(id) ELSE Null)
         THEN Op("logs", "http", id, token.userId, "403", Null)
         ELSE IF ~Exists(id)
         THEN Op("logs", "http", id, token.userId, "500", Null)
         ELSE Op("logs", "http", id, token.userId, "200", id)
    /\ UNCHANGED <<wsVars, paramVars>>

\* ---------------------------------------------------------------- specification

NoOp == Op("none", "none", Null, "none", "none", Null)

NoSeen == [h \in {"query", "subscribe"} |-> [w \in {"exists", "absent"} |-> "none"]]

\* a stored user: the fields of the access check and the username
StoredUser(id, username, role, hasAllowed, allowed) ==
    [id |-> id, username |-> username, role |-> role, hasAllowed |-> hasAllowed,
     allowedContainers |-> allowed]

\* the users file as loadUsers sees it at start
InitialFile ==
    << StoredUser("1", "admin", "admin", TRUE, <<>>),
       StoredUser("2", "dev", "user", TRUE, <<WEB>>) >>

QuietStore == usersFile = InitialFile /\ saves = 0 /\ now = 0

\* a JavaScript number: NaN or an integer
Num(n) == [nan |-> FALSE, n |-> n]

NaN == [nan |-> TRUE, n |-> 0]

\* a query-string parameter: undefined, or a string with what parseInt and
\* new Date(...).getTime() make of it
Absent == [given |-> FALSE, text |-> "", int |-> NaN, time |-> NaN]

Str(text, int, time) == [given |-> TRUE, text |-> text, int |-> int, time |-> time]

NoQuery ==
    [page |-> Absent, limit |-> Absent, search |-> <<>>, since |-> Absent,
     until |-> Absent, timeRange |-> Absent, tail |-> Absent]

NoPage ==
    [status |-> "none", logs |-> <<>>, page |-> 0, limit |-> 0, totalLogs |-> 0,
     totalPages |-> 0, hasMore |-> FALSE]

\* an options field that is set, or not
Opt(v) == [set |-> TRUE, v |-> v]

NoOpt == [set |-> FALSE, v |-> NaN]

\* container.logs was called at that time with these options, or not at all
Asked(at, o) ==
    [called |-> TRUE, at |-> at, since |-> o.since, until |-> o.until, tail |-> o.tail]

NotAsked == [called |-> FALSE, at |-> 0, since |-> NoOpt, until |-> NoOpt, tail |-> NoOpt]

QuietQuery ==
    /\ req = NoQuery
    /\ src = <<>>
    /\ resp = NoPage
    /\ prev = NoPage
    /\ asked = NotAsked
    /\ strictSource = FALSE

\* no stream has emitted anything
QuietRelay == sent = <<>> /\ fed = <<>> /\ failed = {} /\ ended = {}

\* the client has selected no container: useState({}), useState(null)
QuietClient ==
    /\ logsMap = [x \in {WEB, DB} |-> <<>>]
    /\ selectedContainer = Null
    /\ received = [x \in {WEB, DB} |-> <<>>]

\* the first page of a historical view: no request in flight, page 0 loaded
NoPager ==
    [query |-> "none", isLoading |-> FALSE, page |-> 0, hasMore |-> FALSE,
     rendered |-> [isLoading |-> FALSE, page |-> 0, hasMore |-> FALSE],
     flying |-> EmptyBag]

QuietLate ==
    /\ openSockets = {}
    /\ pager = NoPager
    /\ silent = {}
    /\ hashing = EmptyBag

QuietLive == QuietRelay /\ QuietClient /\ QuietLate

\* nothing of the other specifications has run
Quiet == seen = NoSeen /\ QuietStore /\ QuietQuery /\ QuietLive

InitWith(n) ==
    /\ WsInit({"c1"})
    /\ lastOp = NoOp
    /\ acUser = NoUser
    /\ acRef = Null
    /\ acName = Null
    /\ cap = n
    /\ Quiet

Init == InitWith(MaxStreams)

Next ==
    \/ \E c \in Conns, token \in Tokens : AuthMsg(c, token)
    \/ \E c \in Conns, r \in SubRefs : SubscribeMsg(c, r)
    \/ \E c \in Conns : \E h \in BagToSet(pending[c]) : InspectReject(c, h)
    \/ \E c \in Conns : \E h \in BagToSet(pending[c]) : InspectResolve(c, h)
    \/ \E c \in Conns : \E h \in BagToSet(pending[c]) : LogsResolve(c, h)
    \/ \E c \in Conns : \E h \in BagToSet(pending[c]) : LogsReject(c, h)
    \/ \E c \in Conns : UnsubscribeMsg(c)
    \/ \E c \in Conns : Close(c)
    \/ \E sid \in 1..Len(streams) : StreamData(sid)

HttpNext == \E token \in Tokens, r \in SubRefs : GetContainerLogs(token, r)

Spec == Init /\ [][Next]_vars

\* the connection together with the historical route
SpecLogs == InitWith(MaxStreams - 1) /\ [][Next \/ HttpNext]_vars

\* ---------------------------------------------------------------- the access check alone

\* the strings the check is tried on: every prefix of "web-1" ("", "w", ...,
\* "web", ..., "web-1"), "wa" that shares one character with them, "db", "*"
AcStrs == { SubSeq(WEB1, 1, k) : k \in 0..Len(WEB1) } \cup {WA, DB, STAR}

AcLists == UNION { [1..k -> AcStrs] : k \in 0..MaxEntries }

AcUsers ==
    { User("u", role, TRUE, list) : role \in {"admin", "user"}, list \in AcLists }
    \cup { User("u", role, FALSE, <<>>) : role \in {"admin", "user"} }

AccessInit ==
    /\ WsInit({"c1"})
    /\ lastOp = NoOp
    /\ acUser \in AcUsers
    /\ acRef \in AcStrs
    /\ acName \in AcStrs \cup {Null}
    /\ cap = 0
    /\ Quiet

Decision(b) == IF b THEN "allow" ELSE "deny"

\* the filter of GET /api/containers applied to a container of that id and name
AccessListing ==
    /\ Truthy(acName)
    /\ lastOp' = Op("list", "http", acRef, acUser.role,
                    Decision(ListingKeeps(acUser, [fullId |-> acRef, name |-> acName])), Null)
    /\ UNCHANGED <<wsVars, paramVars>>

\* the check of GET /api/containers/:id/logs
AccessQuery ==
    /\ lastOp' = Op("query", "http", acRef, acUser.role,
                    Decision(QueryCheck(acUser, acRef, acName)), Null)
    /\ UNCHANGED <<wsVars, paramVars>>

\* the check of a WebSocket subscribe
AccessSubscribe ==
    /\ lastOp' = Op("subscribe", "ws", acRef, acUser.role,
                    Decision(SubscribeCheck(acUser, acRef, acName)), Null)
    /\ UNCHANGED <<wsVars, paramVars>>

AccessNext == AccessListing \/ AccessQuery \/ AccessSubscribe

SpecAccess == AccessInit /\ [][AccessNext]_vars

\* ================================================================ claims

\* p is a prefix of s
IsPrefix(p, s) == Len(p) <= Len(s) /\ SubSeq(s, 1, Len(p)) = p

\* the allow-list of a principal; a principal without one has the empty list
AllowList(user) == IF user.hasAllowed THEN user.allowedContainers ELSE <<>>

\* the rules of the Access Control Resolver, in their order
OrderedRules(user, ref, name) ==
    LET list == AllowList(user) IN
    IF user.role = "admin" THEN TRUE
    ELSE IF \E i \in 1..Len(list) : list[i] = STAR THEN TRUE
    ELSE IF \E i \in 1..Len(list) : list[i] = ref \/ (name # Null /\ list[i] = name) THEN TRUE
    ELSE IF \E i \in 1..Len(list) : IsPrefix(list[i], ref) \/ IsPrefix(ref, list[i]) THEN TRUE
    ELSE FALSE

OnlyWeb == User("u", "user", TRUE, <<WEB>>)

\* C9: for every principal, resource reference and optional resolved name the
\* access check decides as the ordered rules do (admin; "*"; an entry equal to
\* the reference or the name; a prefix relation between an entry and the
\* reference in either direction; else deny), at the query and at the subscribe
\* check; a non-admin allowed ["web"] gets "web" and "web-1" and not "db".
C9_AllowsFollowsOrderedRules ==
    /\ hasContainerAccess(acUser, acRef, acName) = OrderedRules(acUser, acRef, acName)
    /\ lastOp.op \in {"query", "subscribe"}
         => lastOp.out = Decision(OrderedRules(acUser, acRef, acName))
    /\ hasContainerAccess(OnlyWeb, WEB, Null)
    /\ hasContainerAccess(OnlyWeb, WEB1, Null)
    /\ ~hasContainerAccess(OnlyWeb, DB, Null)

\* C9 witness: the subscribe check allowed "web-1" to the principal whose list is ["web"]
C9_Witness ==
    /\ lastOp.op = "subscribe"
    /\ lastOp.out = "allow"
    /\ acUser = OnlyWeb
    /\ acRef = WEB1
    /\ acName = Null

\* C10: a principal whose role is admin is let through by the listing filter,
\* by the check of the historical query and by the check of the subscribe,
\* whatever its allow-list is, also when the list is empty or missing.
C10_AdminAlwaysAllowed ==
    (acUser.role = "admin" /\ lastOp.op \in {"list", "query", "subscribe"})
        => lastOp.out = "allow"

\* C10 witness: an admin without an allowedContainers field passed the query check
C10_Witness ==
    /\ acUser.role = "admin"
    /\ ~acUser.hasAllowed
    /\ lastOp.op = "query"
    /\ lastOp.out = "allow"

\* C1: in every reachable state every connection has at most one decode
\* stream that was opened and not yet destroyed, also when a second subscribe
\* is handled while an earlier one still awaits the log source.
C1_AtMostOneOpenStream ==
    \A c \in Conns : Cardinality(OpenStreams(c)) <= 1

\* C2: in the step that accepts a subscribe for a container B (the access
\* check passed and the log source is asked for B's stream) every stream the
\* connection had open for another container A is destroyed, so that A is
\* released before B is opened and no later state has both open.
C2_ReleaseBeforeOpen ==
    [][\A c \in Conns :
         (lastOp'.op = "accept" /\ lastOp'.conn = c)
             => \A sid \in OpenStreams(c) :
                    streams[sid].containerId # lastOp'.ref => ~streams'[sid].open]_vars

\* C3: a subscribe message handled on a connection that is not authenticated
\* is answered with the error 'Not authenticated', opens no stream, starts no
\* call (no handler is suspended) and leaves the connection unauthenticated.
C3_SubscribeBeforeAuthRejected ==
    [][\A c \in Conns :
         (lastOp'.op = "subscribe" /\ lastOp'.conn = c /\ authenticatedUser[c] = NoUser)
             => /\ lastOp'.out = "error: Not authenticated"
                /\ authenticatedUser'[c] = NoUser
                /\ UNCHANGED wsVars]_vars

\* C3 witness: a subscribe was refused on a connection that never authenticated
C3_Witness ==
    /\ lastOp.op = "subscribe"
    /\ lastOp.conn = "c1"
    /\ lastOp.out = "error: Not authenticated"
    /\ authenticatedUser["c1"] = NoUser
    /\ streams = <<>>
    /\ pending["c1"] = EmptyBag

\* the access check returns allow for the user of that id and the container
Allowed(userId, ref) ==
    /\ findUser(userId) # NoUser
    /\ Exists(ref)
    /\ hasContainerAccess(findUser(userId), ref, inspectName(ref))

\* the calls to the log source that connection c awaits
LogsCalls(c) == { h \in BagToSet(pending[c]) : h.pc = "logs" }

C5_ClosedHoldsNoStream ==
    \A c \in Conns : wsState[c] = "closed" => OpenStreams(c) = {}

\* C6: an unsubscribe handled on an authenticated connection that holds an
\* open stream destroys that stream, clears the handle and the container
\* reference and leaves the user in place; and a subscribe on an authenticated
\* connection is taken up (its inspect call starts) without a new auth.
C6_UnsubscribeReturnsToAuthenticated ==
    [][\A c \in Conns :
         /\ (/\ lastOp'.op = "unsubscribe"
             /\ lastOp'.conn = c
             /\ authenticatedUser[c] # NoUser
             /\ currentStream[c] # 0)
               => /\ ~streams'[currentStream[c]].open
                  /\ currentStream'[c] = 0
                  /\ currentContainerId'[c] = Null
                  /\ authenticatedUser'[c] = authenticatedUser[c]
         /\ (lastOp'.op = "subscribe" /\ lastOp'.conn = c /\ authenticatedUser[c] # NoUser)
               => /\ lastOp'.out = "await inspect"
                  /\ pending'[c] # pending[c]]_vars

\* C6 witness: after an unsubscribe the connection is authenticated, holds no
\* handle and its stream is destroyed
C6_Witness ==
    /\ lastOp.op = "unsubscribe"
    /\ lastOp.conn = "c1"
    /\ authenticatedUser["c1"] # NoUser
    /\ currentStream["c1"] = 0
    /\ Len(streams) = 1
    /\ ~streams[1].open

\* C7: when the access check of a subscribe denies, the handler sends the
\* access-denied error and changes nothing: the user, the container
\* reference, the stream handle, the streams and the registry stay as they were.
C7_DeniedSubscribeChangesNothing ==
    [][\A c \in Conns :
         (/\ lastOp'.op \in {"check", "accept"}
          /\ lastOp'.conn = c
          /\ authenticatedUser[c] # NoUser
          /\ ~OrderedRules(authenticatedUser[c], lastOp'.ref, inspectName(lastOp'.ref)))
             => /\ lastOp'.out = Denied
                /\ UNCHANGED <<authenticatedUser, currentStream, currentContainerId,
                               streams, activeStreams, wsState>>]_vars

\* C7 witness: a subscribe was denied on a connection whose stream is still open
C7_Witness ==
    /\ lastOp.out = Denied
    /\ lastOp.conn = "c1"
    /\ currentStream["c1"] # 0
    /\ streams[currentStream["c1"]].open
    /\ currentContainerId["c1"] = WEB

\* C8: on an unauthenticated connection an auth message whose token is
\* missing, wrongly signed, expired or names a user that is in no file sends
\* auth failed and leaves the connection unauthenticated, and a subscribe or
\* unsubscribe is refused with 'Not authenticated'; none of them changes a
\* stream, a handle, the registry or the suspended handlers.
C8_FailedAuthStaysUnauthenticated ==
    [][\A c \in Conns :
         (authenticatedUser[c] = NoUser /\ lastOp'.conn = c)
             => /\ (/\ lastOp'.op = "auth"
                    /\ \/ lastOp'.ref # <<"valid">>
                       \/ findUser(lastOp'.user) = NoUser)
                      => /\ lastOp'.out \in {"auth failed: Invalid token",
                                             "auth failed: User not found"}
                         /\ UNCHANGED wsVars
                /\ lastOp'.op \in {"subscribe", "unsubscribe"}
                      => /\ lastOp'.out = "error: Not authenticated"
                         /\ UNCHANGED wsVars]_vars

\* C8 witness: an expired token was refused and the connection is unauthenticated
C8_Witness ==
    /\ lastOp.op = "auth"
    /\ lastOp.conn = "c1"
    /\ lastOp.ref = <<"expired">>
    /\ lastOp.out = "auth failed: Invalid token"
    /\ authenticatedUser["c1"] = NoUser

\* ================================================================ one container under its three names

\* c.Id.substring(0, 12): the length of the short id
ShortIdLen == 12

FULL_A == <<"a", "1", "b", "2", "c", "3", "d", "4", "e", "5", "f", "6", "7">>
FULL_B == <<"b", "9", "c", "8", "d", "7", "e", "6", "f", "5", "a", "4", "3">>
W == <<"w">>

substring(s, n) == SubSeq(s, 1, IF Len(s) < n THEN Len(s) ELSE n)

\* the containers of the daemon: Id and Names[0] without its slash
AliasContainers ==
    { [fullId |-> FULL_A, name |-> WEB], [fullId |-> FULL_B, name |-> WEB1] }

\* the names a request can give a container: what the listing shows as id,
\* fullId and name, each of which the daemon resolves to that container
AliasKinds == {"short", "full", "name"}

Alias(c, kind) ==
    CASE kind = "short" -> substring(c.fullId, ShortIdLen)
      [] kind = "full" -> c.fullId
      [] kind = "name" -> c.name

\* allow-list entries: names, a name prefix, a short id, a full id, the star
AliasStrs == {WEB, WEB1, W, substring(FULL_A, ShortIdLen), FULL_A, STAR}

AliasLists == UNION { [1..k -> AliasStrs] : k \in 0..MaxEntries }

AliasUsers ==
    { User("u", role, TRUE, list) : role \in {"admin", "user"}, list \in AliasLists }

AliasInit ==
    /\ WsInit({"c1"})
    /\ lastOp = NoOp
    /\ acUser \in AliasUsers
    /\ \E c \in AliasContainers : acRef = c.fullId /\ acName = c.name
    /\ cap = 0
    /\ Quiet

AliasContainer == [fullId |-> acRef, name |-> acName]

\* GET /api/containers: is the container in the filtered listing
AliasListing ==
    /\ lastOp' = Op("list", "full", acRef, acUser.role,
                    Decision(ListingKeeps(acUser, AliasContainer)), Null)
    /\ UNCHANGED <<wsVars, paramVars>>

\* GET /api/containers/:id/logs with :id one of the container's names; the
\* inspect resolves it and yields the container's name
AliasQuery(kind) ==
    /\ lastOp' = Op("query", kind, Alias(AliasContainer, kind), acUser.role,
                    Decision(QueryCheck(acUser, Alias(AliasContainer, kind), acName)), Null)
    /\ UNCHANGED <<wsVars, paramVars>>

\* a WebSocket subscribe with containerId one of the container's names
AliasSubscribe(kind) ==
    /\ lastOp' = Op("subscribe", kind, Alias(AliasContainer, kind), acUser.role,
                    Decision(SubscribeCheck(acUser, Alias(AliasContainer, kind), acName)), Null)
    /\ UNCHANGED <<wsVars, paramVars>>

AliasNext ==
    \/ AliasListing
    \/ \E kind \in AliasKinds : AliasQuery(kind)
    \/ \E kind \in AliasKinds : AliasSubscribe(kind)

SpecAlias == AliasInit /\ [][AliasNext]_vars

\* C11: for every principal and container, a historical query and a live
\* subscribe that name the container by its short id, its full id or its name
\* are authorized exactly when the container is in the principal's filtered
\* listing.
C11_SameDecisionEverywhere ==
    lastOp.op \in {"query", "subscribe"}
        => lastOp.out = Decision(ListingKeeps(acUser, AliasContainer))

\* ================================================================ one request, with and without the container

Worlds == {"exists", "absent"}

ExistRefs == {WEB, WEB1, DB, GONE}

ExistLists == UNION { [1..k -> {WEB, DB, STAR}] : k \in 0..MaxEntries }

ExistUsers ==
    { User("u", role, TRUE, list) : role \in {"admin", "user"}, list \in ExistLists }
    \cup { User("u", "user", FALSE, <<>>) }

\* what container.inspect() yields for the reference in that world: the name,
\* or the rejection that the route swallows and the subscribe handler reports
InspectIn(world, name) == IF world = "exists" THEN name ELSE Null

\* GET /api/containers/:id/logs by an authenticated user: the response status
LogsOutcome(user, id, world, name) ==
    IF ~QueryCheck(user, id, InspectIn(world, name))
    THEN "403: Access denied to this container"
    ELSE IF world = "exists" THEN "200" ELSE "500: Failed to fetch logs"

\* a subscribe by an authenticated user: the first message sent back
SubscribeOutcome(user, id, world, name) ==
    IF world = "absent" THEN "error: Container not found"
    ELSE IF ~SubscribeCheck(user, id, name) THEN Denied
         ELSE "subscribed"

ExistInit ==
    /\ WsInit({"c1"})
    /\ lastOp = NoOp
    /\ acUser \in ExistUsers
    /\ acRef \in ExistRefs
    /\ acName \in {WEB, DB}
    /\ cap = 0
    /\ seen = NoSeen
    /\ QuietStore
    /\ QuietQuery
    /\ QuietLive

LogsIn(world) ==
    /\ seen["query"][world] = "none"
    /\ seen' = [seen EXCEPT !["query"][world] = LogsOutcome(acUser, acRef, world, acName)]
    /\ lastOp' = Op("logs", world, acRef, acUser.role,
                    LogsOutcome(acUser, acRef, world, acName), Null)
    /\ UNCHANGED <<wsVars, accessVars, storeVars, queryVars, liveVars>>

SubscribeIn(world) ==
    /\ seen["subscribe"][world] = "none"
    /\ seen' = [seen EXCEPT !["subscribe"][world] =
                                SubscribeOutcome(acUser, acRef, world, acName)]
    /\ lastOp' = Op("subscribe", world, acRef, acUser.role,
                    SubscribeOutcome(acUser, acRef, world, acName), Null)
    /\ UNCHANGED <<wsVars, accessVars, storeVars, queryVars, liveVars>>

ExistNext ==
    \/ \E world \in Worlds : LogsIn(world)
    \/ \E world \in Worlds : SubscribeIn(world)

SpecExist == ExistInit /\ [][ExistNext]_vars

\* the principal has no permission for the reference acRef of a container
\* named acName
LacksPermission == ~OrderedRules(acUser, acRef, acName)

BothSeen(h) == seen[h]["exists"] # "none" /\ seen[h]["absent"] # "none"

\* C12: a principal without permission for a reference gets the same response
\* with and without a container of that reference, from the historical query
\* and from the live subscribe.
C12_NoExistenceLeak ==
    \A h \in {"query", "subscribe"} :
        (LacksPermission /\ BothSeen(h)) => seen[h]["exists"] = seen[h]["absent"]

\* the historical query alone gives a denied principal the same response in
\* both worlds
C12_QueryNoExistenceLeak ==
    (LacksPermission /\ BothSeen("query"))
        => seen["query"]["exists"] = seen["query"]["absent"]

\* ================================================================ the HTTP routes behind authMiddleware

\* users.findIndex(u => u.id === id): 0 stands for -1
findIndex(file, id) ==
    IF \E i \in 1..Len(file) : file[i].id = id
    THEN CHOOSE i \in 1..Len(file) :
             /\ file[i].id = id
             /\ \A j \in 1..(i - 1) : file[j].id # id
    ELSE 0

Passed(user) == [status |-> "next", user |-> user]

Refused(status) == [status |-> status, user |-> NoUser]

authMiddleware_NoDirectory(token, file) ==
    IF token.kind = "missing" THEN Refused("401: No token provided")
    ELSE IF ~jwtVerifies(token) THEN Refused("401: Invalid token")
    ELSE Passed(IF findIndex(file, token.userId) = 0 THEN NoUser
                ELSE file[findIndex(file, token.userId)])

\* authMiddleware: the status it answers, or "next" with req.user
authMiddleware(token, file) ==
    IF token.kind = "missing" THEN Refused("401: No token provided")
    ELSE IF ~jwtVerifies(token) THEN Refused("401: Invalid token")
    ELSE IF findIndex(file, token.userId) = 0 THEN Refused("401: User not found")
    ELSE Passed(file[findIndex(file, token.userId)])

adminMiddleware_NoRoleCheck(a) == a


\* adminMiddleware, after authMiddleware
adminMiddleware(a) ==
    IF a.status # "next" THEN a
    ELSE IF a.user.role # "admin" THEN Refused("403: Admin access required")
    ELSE a

\* what a handler did: its status, the calls it made to docker and to the
\* users file, the file it leaves and whether it called saveUsers
Result(status, effects, file, saved) ==
    [status |-> status, effects |-> effects, file |-> file, saved |-> saved]

Reads(status, effects) == Result(status, effects, usersFile, FALSE)

\* the response of a route is recorded with the token it came with
Respond(route, token, r) ==
    /\ r.saved => saves < MaxSaves
    /\ lastOp' = Op(route, "http", <<token.kind>>, token.userId, r.status, r.effects)
    /\ usersFile' = r.file
    /\ saves' = IF r.saved THEN saves + 1 ELSE saves
    /\ UNCHANGED <<wsVars, accessVars, seen, now, queryVars, liveVars>>

\* GET /api/containers
GetContainers(token) ==
    \E up \in BOOLEAN :
        LET a == authMiddleware(token, usersFile) IN
        Respond("containers", token,
                IF a.status # "next" THEN Reads(a.status, <<>>)
                ELSE IF ~up THEN Reads("500: Failed to fetch containers",
                                       <<"docker.listContainers">>)
                ELSE Reads("200", <<"docker.listContainers">>))

\* GET /api/containers/:id/logs
GetLogs(token, id) ==
    LET a == authMiddleware(token, usersFile) IN
    Respond("logs", token,
            IF a.status # "next" THEN Reads(a.status, <<>>)
            ELSE IF ~QueryCheck(a.user, id, IF Exists(id) THEN inspectName(id) ELSE Null)
            THEN Reads("403: Access denied to this container", <<"docker.inspect">>)
            ELSE IF ~Exists(id)
            THEN Reads("500: Failed to fetch logs", <<"docker.inspect", "docker.logs">>)
            ELSE Reads("200", <<"docker.inspect", "docker.logs">>))

\* GET /api/docker/info
GetDockerInfo(token) ==
    \E up \in BOOLEAN :
        LET a == authMiddleware(token, usersFile) IN
        Respond("dockerInfo", token,
                IF a.status # "next" THEN Reads(a.status, <<>>)
                ELSE IF ~up THEN Reads("500: Failed to get Docker info", <<"docker.info">>)
                ELSE Reads("200", <<"docker.info">>))

\* GET /api/users
ListUsers(token) ==
    LET a == adminMiddleware(authMiddleware(token, usersFile)) IN
    Respond("users.list", token,
            IF a.status # "next" THEN Reads(a.status, <<>>)
            ELSE Reads("200", <<"users.read">>))

\* what a create or update request carries; "" and FALSE stand for a field
\* that is missing
Body(username, password, role, hasAllowed) ==
    [username |-> username, password |-> password, role |-> role,
     hasAllowed |-> hasAllowed, allowedContainers |-> <<STAR>>]

\* a new user, a new admin, a username that is taken, a missing password
CreateBodies ==
    { Body("ops", TRUE, "", FALSE), Body("ops", TRUE, "admin", TRUE),
      Body("dev", TRUE, "", FALSE), Body("ops", FALSE, "", FALSE) }

\* an update gives one field
UpdateBodies ==
    { Body("ops", FALSE, "", FALSE), Body("", FALSE, "admin", FALSE),
      Body("", FALSE, "user", FALSE), Body("", FALSE, "", TRUE) }

\* Date.now().toString()
TimeId(t) == "t" \o ToString(t)

\* POST /api/users
CreateUser(token, body) ==
    LET a == adminMiddleware(authMiddleware(token, usersFile))
        newUser == StoredUser(TimeId(now), body.username,
                              IF body.role = "" THEN "user" ELSE body.role, TRUE,
                              IF body.hasAllowed THEN body.allowedContainers ELSE <<>>)
    IN
    Respond("users.create", token,
            IF a.status # "next" THEN Reads(a.status, <<>>)
            ELSE IF body.username = "" \/ ~body.password
            THEN Reads("400: Username and password required", <<>>)
            ELSE IF \E i \in 1..Len(usersFile) : usersFile[i].username = body.username
            THEN Reads("400: Username already exists", <<"users.read">>)
            ELSE Result("201", <<"users.read", "users.write">>,
                        Append(usersFile, newUser), TRUE))

\* PUT /api/users/:id
UpdateUser(token, id, body) ==
    LET a == adminMiddleware(authMiddleware(token, usersFile))
        i == findIndex(usersFile, id)
        updated == [usersFile[i] EXCEPT
                      !.username = IF body.username # "" THEN body.username ELSE @,
                      !.role = IF body.role # "" THEN body.role ELSE @,
                      !.hasAllowed = IF body.hasAllowed THEN TRUE ELSE @,
                      !.allowedContainers =
                          IF body.hasAllowed THEN body.allowedContainers ELSE @]
    IN
    Respond("users.update", token,
            IF a.status # "next" THEN Reads(a.status, <<>>)
            ELSE IF i = 0 THEN Reads("404: User not found", <<"users.read">>)
            ELSE Result("200", <<"users.read", "users.write">>,
                        [usersFile EXCEPT ![i] = updated], TRUE))

\* array.splice(i, 1)
splice(file, i) == SubSeq(file, 1, i - 1) \o SubSeq(file, i + 1, Len(file))

DeleteUser_NoLastAdminCheck(token, id) ==
    LET a == adminMiddleware(authMiddleware(token, usersFile))
        i == findIndex(usersFile, id)
    IN
    Respond("users.delete", token,
            IF a.status # "next" THEN Reads(a.status, <<>>)
            ELSE IF i = 0 THEN Reads("404: User not found", <<"users.read">>)
            ELSE Result("200", <<"users.read", "users.write">>, splice(usersFile, i), TRUE))


\* DELETE /api/users/:id
DeleteUser(token, id) ==
    LET a == adminMiddleware(authMiddleware(token, usersFile))
        i == findIndex(usersFile, id)
        adminCount == Cardinality({j \in 1..Len(usersFile) : usersFile[j].role = "admin"})
    IN
    Respond("users.delete", token,
            IF a.status # "next" THEN Reads(a.status, <<>>)
            ELSE IF i = 0 THEN Reads("404: User not found", <<"users.read">>)
            ELSE IF usersFile[i].role = "admin" /\ adminCount <= 1
            THEN Reads("400: Cannot delete the last admin", <<"users.read">>)
            ELSE Result("200", <<"users.read", "users.write">>, splice(usersFile, i), TRUE))

\* a millisecond passes
Tick ==
    /\ now < MaxNow
    /\ now' = now + 1
    /\ lastOp' = Op("tick", "clock", Null, "none", "none", Null)
    /\ UNCHANGED <<wsVars, accessVars, seen, usersFile, saves, queryVars, liveVars>>

\* the ids a request can name: the stored users and one that is in no file
UserIds == {"1", "2", "9"}

AuthInit ==
    /\ WsInit({"c1"})
    /\ lastOp = NoOp
    /\ acUser = NoUser
    /\ acRef = Null
    /\ acName = Null
    /\ cap = 0
    /\ Quiet

AuthNext ==
    \/ \E token \in Tokens : GetContainers(token)
    \/ \E token \in Tokens, id \in SubRefs : GetLogs(token, id)
    \/ \E token \in Tokens : GetDockerInfo(token)
    \/ \E token \in Tokens : ListUsers(token)
    \/ \E token \in Tokens, body \in CreateBodies : CreateUser(token, body)
    \/ \E token \in Tokens, id \in UserIds, body \in UpdateBodies : UpdateUser(token, id, body)
    \/ \E token \in Tokens, id \in UserIds : DeleteUser(token, id)
    \/ Tick

SpecAuth == AuthInit /\ [][AuthNext]_vars

\* ---------------------------------------------------------------- claims on the HTTP routes

ResourceRoutes ==
    {"containers", "logs", "dockerInfo", "users.list", "users.create",
     "users.update", "users.delete"}

Unauthorized == {"401: No token provided", "401: Invalid token", "401: User not found"}

\* the token of the request is signed, unexpired and its user is in the file
\* when the request arrives
GoodToken(kind, userId, file) ==
    /\ kind = <<"valid">>
    /\ \E i \in 1..Len(file) : file[i].id = userId

\* C13: a request to the container listing, the container logs, the docker
\* info or the user management whose bearer token is missing, wrongly signed,
\* expired or names a user that is not in the users file at that moment is
\* answered 401, calls neither docker nor the users file and leaves the file
\* as it was; only a request with a good token gets another answer.
C13_ResourceRoutesNeedGoodToken ==
    [][lastOp'.op \in ResourceRoutes
          => \/ GoodToken(lastOp'.ref, lastOp'.user, usersFile)
             \/ /\ lastOp'.out \in Unauthorized
                /\ lastOp'.data = <<>>
                /\ usersFile' = usersFile
                /\ saves' = saves]_vars

\* C13 witness: user 2 was deleted from the file and a request with that
\* user's unexpired token is answered 401
C13_Witness ==
    /\ lastOp.op = "logs"
    /\ lastOp.ref = <<"valid">>
    /\ lastOp.user = "2"
    /\ lastOp.out = "401: User not found"
    /\ \A i \in 1..Len(usersFile) : usersFile[i].id # "2"

\* why verify refuses a token; "none" when it yields the principal
Cause(kind, userId, file) ==
    CASE kind = <<"badsig">> -> "InvalidSignature"
      [] kind = <<"expired">> -> "Expired"
      [] kind = <<"valid">> /\ (\A i \in 1..Len(file) : file[i].id # userId)
            -> "PrincipalNotFound"
      [] kind = <<"valid">> /\ (\E i \in 1..Len(file) : file[i].id = userId) -> "none"
      [] OTHER -> "NoToken"

VerifyCauses == {"InvalidSignature", "Expired", "PrincipalNotFound"}

\* C14: the answer to a token that is wrongly signed, expired or names an
\* absent user tells which of the three it was: no token refused for another
\* of these causes gets the same answer.
C14_DistinctAuthErrors ==
    (/\ lastOp.op \in ResourceRoutes
     /\ Cause(lastOp.ref, lastOp.user, usersFile) \in VerifyCauses)
        => \A t \in Tokens :
              (/\ Cause(<<t.kind>>, t.userId, usersFile) \in VerifyCauses
               /\ Cause(<<t.kind>>, t.userId, usersFile)
                     # Cause(lastOp.ref, lastOp.user, usersFile))
                  => authMiddleware(t, usersFile).status # lastOp.out

\* ================================================================ the historical query of the logs route

\* parseInt(limit) || 500, Math.min(..., 2000), options.tail = 100
DefaultLimit == 500
MaxLimit == 2000
DefaultTail == 100

\* a string of the query is truthy unless it is empty
StrTruthy(p) == p.given /\ p.text # ""

parseInt(p) == IF p.given THEN p.int ELSE NaN

\* x || d for a number x
OrElse(x, d) == IF x.nan \/ x.n = 0 THEN d ELSE x.n

Min(a, b) == IF a < b THEN a ELSE b

Max(a, b) == IF a < b THEN b ELSE a

\* Math.ceil(a / b) for a >= 0 and b # 0
ceilDiv(a, b) == IF b > 0 THEN (a + b - 1) \div b ELSE 0 - (a \div (0 - b))

\* Array.prototype.slice(start, end)
slice(seq, start, end) ==
    LET rel(i) == IF i < 0 THEN Max(Len(seq) + i, 0) ELSE Min(i, Len(seq))
    IN  IF rel(start) < rel(end) THEN SubSeq(seq, rel(start) + 1, rel(end)) ELSE <<>>

\* ---- the options given to container.logs

TimeRanges == {"5m", "15m", "30m", "1h", "3h", "6h", "12h", "24h", "3d", "7d"}

\* the seconds a timeRange token stands for
Delta(token) ==
    CASE token = "5m" -> 5 * 60
      [] token = "15m" -> 15 * 60
      [] token = "30m" -> 30 * 60
      [] token = "1h" -> 60 * 60
      [] token = "3h" -> 3 * 60 * 60
      [] token = "6h" -> 6 * 60 * 60
      [] token = "12h" -> 12 * 60 * 60
      [] token = "24h" -> 24 * 60 * 60
      [] token = "3d" -> 3 * 24 * 60 * 60
      [] token = "7d" -> 7 * 24 * 60 * 60

\* Math.floor(new Date(s).getTime() / 1000)
seconds(p) == IF p.time.nan THEN NaN ELSE Num(p.time.n \div 1000)

\* the since, until and tail of the options object built from req.query
ResolveOptions(q, nowMs) ==
    LET S == StrTruthy(q.since)
        U == StrTruthy(q.until)
        R == ~S /\ ~U /\ StrTruthy(q.timeRange)
    IN  [since |-> IF S THEN Opt(seconds(q.since))
                   ELSE IF R /\ q.timeRange.text \in TimeRanges
                   THEN Opt(Num((nowMs \div 1000) - Delta(q.timeRange.text)))
                   ELSE NoOpt,
         until |-> IF U THEN Opt(seconds(q.until)) ELSE NoOpt,
         tail  |-> IF S \/ U THEN NoOpt
                   ELSE IF R
                   THEN IF q.timeRange.text \in TimeRanges THEN NoOpt
                        ELSE Opt(Num(DefaultTail))
                   ELSE IF StrTruthy(q.tail) THEN Opt(parseInt(q.tail))
                   ELSE Opt(Num(DefaultTail))]

\* ---- the log source

\* an option that is set to NaN
Malformed(o) == o.set /\ o.v.nan

\* container.logs(options) without follow: the lines of the entries emitted
\* between since and until, the last tail of them. What the daemon does with a
\* NaN is its own business: it refuses the call (strict) or ignores the option.
SourceLogs(source, o, strict) ==
    LET inWindow(e) ==
            /\ (o.since.set /\ ~o.since.v.nan) => e.t >= o.since.v.n
            /\ (o.until.set /\ ~o.until.v.nan) => e.t <= o.until.v.n
        sel == SelectSeq(source, inWindow)
        n == o.tail.v.n
        last == IF o.tail.set /\ ~o.tail.v.nan /\ n >= 0 /\ n < Len(sel)
                THEN SubSeq(sel, Len(sel) - n + 1, Len(sel))
                ELSE sel
    IN  IF strict /\ (Malformed(o.since) \/ Malformed(o.until) \/ Malformed(o.tail))
        THEN [ok |-> FALSE, lines |-> <<>>]
        ELSE [ok |-> TRUE, lines |-> [i \in 1..Len(last) |-> last[i].line]]

\* ---- parseDockerLogs

\* A line is a sequence of characters. "0x00", "0x01", "0x02" are the
\* characters of code 0, 1, 2; "T1" and "T2" each stand for a whole ISO-8601
\* timestamp; " " is white space; the rest are letters.
Timestamps == {"T1", "T2"}

charCode(ch) ==
    CASE ch = "0x00" -> 0
      [] ch = "0x01" -> 1
      [] ch = "0x02" -> 2
      [] OTHER -> 97

\* the index of the first character that is not white space, Len(s) + 1 if none
firstInk(s) ==
    IF \E i \in 1..Len(s) : s[i] # " "
    THEN CHOOSE i \in 1..Len(s) : s[i] # " " /\ \A j \in 1..(i - 1) : s[j] = " "
    ELSE Len(s) + 1

lastInk(s) ==
    IF \E i \in 1..Len(s) : s[i] # " "
    THEN CHOOSE i \in 1..Len(s) : s[i] # " " /\ \A j \in (i + 1)..Len(s) : s[j] = " "
    ELSE 0

trim(s) == SubSeq(s, firstInk(s), lastInk(s))

\* new Date().toISOString()
IsoNow(nowMs) == "now" \o ToString(nowMs)

LogLine(index, nowMs, timestamp, message, stream) ==
    [kept |-> TRUE, id |-> <<nowMs, index>>, timestamp |-> timestamp,
     message |-> message, stream |-> stream]

Dropped == [kept |-> FALSE, id |-> <<0, 0>>, timestamp |-> "", message |-> <<>>,
            stream |-> ""]

\* the body of rawLines.forEach for one line
parseLine(line, index, nowMs) ==
    LET cleanLine == IF charCode(line[1]) <= 2 THEN SubSeq(line, 9, Len(line)) ELSE line
        rest == SubSeq(cleanLine, 2, Len(cleanLine))
    IN  IF Len(cleanLine) > 0 /\ cleanLine[1] \in Timestamps
        THEN LogLine(index, nowMs, cleanLine[1], SubSeq(rest, firstInk(rest), Len(rest)),
                     IF charCode(line[1]) = 2 THEN "stderr" ELSE "stdout")
        ELSE IF trim(cleanLine) # <<>>
        THEN LogLine(index, nowMs, IsoNow(nowMs), cleanLine, "stdout")
        ELSE Dropped

parseDockerLogs(lines, nowMs) ==
    LET rawLines == SelectSeq(lines, LAMBDA l : trim(l) # <<>>)
        parsed == [i \in 1..Len(rawLines) |-> parseLine(rawLines[i], i - 1, nowMs)]
    IN  SelectSeq(parsed, LAMBDA r : r.kept)

\* ---- the search filter

toLowerCase(s) ==
    [i \in 1..Len(s) |-> CASE s[i] = "A" -> "a" [] s[i] = "B" -> "b" [] OTHER -> s[i]]

\* String.prototype.includes
strIncludes(s, sub) ==
    \E i \in 0..(Len(s) - Len(sub)) : SubSeq(s, i + 1, i + Len(sub)) = sub

searchFilter(logLines, search) ==
    IF search = <<>> THEN logLines
    ELSE SelectSeq(logLines,
                   LAMBDA log : strIncludes(toLowerCase(log.message), toLowerCase(search)))

\* ---- the response

Page(status, logs, page, limit, totalLogs, totalPages, hasMore) ==
    [status |-> status, logs |-> logs, page |-> page, limit |-> limit,
     totalLogs |-> totalLogs, totalPages |-> totalPages, hasMore |-> hasMore]

LogsPage_HasMoreByIndex(q, source, nowMs, strict) ==
    LET pageNum == OrElse(parseInt(q.page), 1)
        pageLimit == Min(OrElse(parseInt(q.limit), DefaultLimit), MaxLimit)
        logs == SourceLogs(source, ResolveOptions(q, nowMs), strict)
        logLines == searchFilter(parseDockerLogs(logs.lines, nowMs), q.search)
        totalLogs == Len(logLines)
        totalPages == ceilDiv(totalLogs, pageLimit)
        startIndex == (pageNum - 1) * pageLimit
        endIndex == startIndex + pageLimit
    IN  IF ~logs.ok
        THEN Page("500: Failed to fetch logs", <<>>, 0, 0, 0, 0, FALSE)
        ELSE Page("200", slice(logLines, startIndex, endIndex), pageNum, pageLimit,
                  totalLogs, totalPages, endIndex < totalLogs)

\* GET /api/containers/:id/logs from the reading of req.query on, for a user
\* who passed authMiddleware and the access check
LogsPage(q, source, nowMs, strict) ==
    LET pageNum == OrElse(parseInt(q.page), 1)
        pageLimit == Min(OrElse(parseInt(q.limit), DefaultLimit), MaxLimit)
        logs == SourceLogs(source, ResolveOptions(q, nowMs), strict)
        logLines == searchFilter(parseDockerLogs(logs.lines, nowMs), q.search)
        totalLogs == Len(logLines)
        totalPages == ceilDiv(totalLogs, pageLimit)
        startIndex == (pageNum - 1) * pageLimit
        endIndex == startIndex + pageLimit
    IN  IF ~logs.ok
        THEN Page("500: Failed to fetch logs", <<>>, 0, 0, 0, 0, FALSE)
        ELSE Page("200", slice(logLines, startIndex, endIndex), pageNum, pageLimit,
                  totalLogs, totalPages, pageNum < totalPages)

\* ---- requests

\* the 8-byte header of a multiplexed frame before its payload
Frame(marker, payload) ==
    <<marker, "0x00", "0x00", "0x00", "0x00", "0x00", "0x00", "len">> \o payload

\* lines a container can have emitted: stdout and stderr frames with a
\* timestamp, a plain line without one, a frame with no payload, a blank line
LineKinds ==
    { Frame("0x01", <<"T1", " ", "a">>), Frame("0x02", <<"T2", " ", "A", "b">>),
      <<"b">>, Frame("0x01", <<>>), <<" ">> }

Entry(t, line) == [t |-> t, line |-> line]

\* logs whose entries were all emitted at second 0
PageSources ==
    UNION { [1..k -> {Entry(0, l) : l \in LineKinds}] : k \in 0..MaxLines }

NumberParams(ns) ==
    {Absent, Str("abc", NaN, NaN)} \cup {Str(ToString(n), Num(n), NaN) : n \in ns}

PageQueries ==
    { [NoQuery EXCEPT !.page = p, !.limit = l, !.search = s] :
        p \in NumberParams({0 - 1, 0, 2, 3, 4}),
        l \in NumberParams({0 - 1, 0, 1, 2, MaxLimit + 1}),
        s \in {<<>>, <<"a">>, <<"B">>} }

QueryInit(queries, sources, strictness) ==
    /\ WsInit({"c1"})
    /\ lastOp = NoOp
    /\ acUser = NoUser
    /\ acRef = Null
    /\ acName = Null
    /\ cap = 0
    /\ seen = NoSeen
    /\ QuietStore
    /\ QuietLive
    /\ req \in queries
    /\ src \in sources
    /\ resp = NoPage
    /\ prev = NoPage
    /\ asked = NotAsked
    /\ strictSource \in strictness

\* the request is handled, for the first time or once again
GetLogsPage ==
    /\ prev = NoPage
    /\ resp' = LogsPage(req, src, now, strictSource)
    /\ asked' = Asked(now, ResolveOptions(req, now))
    /\ lastOp' = Op("page", "http", Null, "admin", resp'.status, Null)
    /\ prev' = resp
    /\ UNCHANGED <<wsVars, accessVars, seen, storeVars, req, src, strictSource, liveVars>>

SpecPage == QueryInit(PageQueries, PageSources, {FALSE}) /\ [][GetLogsPage]_vars

\* a log with one entry every 200 seconds, the last one 200 seconds before
\* the clock starts
WindowLog ==
    [i \in 1..MaxLines |->
        Entry(0 - 200 * (MaxLines + 1 - i),
              IF i % 2 = 1 THEN Frame("0x01", <<"T1", " ", "a">>) ELSE <<"b">>)]

WindowSources == { SubSeq(WindowLog, k, MaxLines) : k \in 1..(MaxLines + 1) }

\* since and until: none, not a date, a date 500 or 300 seconds before the
\* clock starts; timeRange: none, "5m", "2h" that is not in the switch;
\* tail: none, not a number, 1
WindowQueries ==
    { [NoQuery EXCEPT !.since = s, !.until = u, !.timeRange = r, !.tail = t] :
        s \in {Absent, Str("soon", NaN, NaN), Str("1969-12-31T23:51:40Z", NaN, Num(0 - 500000))},
        u \in {Absent, Str("later", NaN, NaN), Str("1969-12-31T23:55:00Z", NaN, Num(0 - 300000))},
        r \in {Absent, Str("5m", NaN, NaN), Str("2h", NaN, NaN)},
        t \in {Absent, Str("abc", NaN, NaN), Str("1", Num(1), NaN)} }

WindowNext == GetLogsPage \/ Tick

SpecWindow == QueryInit(WindowQueries, WindowSources, BOOLEAN) /\ [][WindowNext]_vars

\* ---------------------------------------------------------------- claims on the pages

\* the records the request selects: those decoded from the window of the
\* request whose message contains the search term, whatever the case
Selected ==
    LET decoded == parseDockerLogs(
                       SourceLogs(src, ResolveOptions(req, now), FALSE).lines, now)
    IN  SelectSeq(decoded,
                  LAMBDA r : \/ req.search = <<>>
                             \/ strIncludes(toLowerCase(r.message),
                                            toLowerCase(req.search)))

\* the records of page p of the request
PageRecords(p) ==
    LogsPage([req EXCEPT !.page = Str(ToString(p), Num(p), NaN)], src, now, FALSE).logs

RECURSIVE PagesUpTo(_)
PagesUpTo(n) == IF n <= 0 THEN <<>> ELSE PagesUpTo(n - 1) \o PageRecords(n)

\* C15: for every log, search term and limit, the pages 1..totalPages of the
\* request put one after the other are the selected records, in order, none
\* twice and none missing, and totalLogs is their number.
C15_PagesConcatenate ==
    resp.status = "200"
        => /\ PagesUpTo(resp.totalPages) = Selected
           /\ resp.totalLogs = Len(Selected)

\* C16: every page returned, whatever page and limit the request gave
\* (none, not a number, zero, negative, beyond the last page), reports
\* hasMore exactly when the page it reports is below the totalPages it reports.
C16_HasMoreIffPageBelowTotal ==
    resp.status = "200" => (resp.hasMore <=> resp.page < resp.totalPages)

\* C16 witness: three records at limit 1; page 3 is the last page, holds the
\* remaining record and reports hasMore false
C16_Witness ==
    /\ resp.status = "200"
    /\ req.limit.text = "1"
    /\ resp.totalPages = 3
    /\ resp.page = 3
    /\ Len(resp.logs) = 1
    /\ ~resp.hasMore

\* C17: the limit reported lies in 1..2000 whatever limit was asked: 500 for
\* none, 2000 for more than 2000, at least 1 for zero and for a negative one;
\* totalPages is the ceiling of totalLogs / limit and is never negative.
C17_LimitClamped ==
    resp.status = "200"
        => /\ resp.limit \in 1..MaxLimit
           /\ ~req.limit.given => resp.limit = DefaultLimit
           /\ (~req.limit.int.nan /\ req.limit.int.n > MaxLimit) => resp.limit = MaxLimit
           /\ resp.totalPages >= 0
           /\ resp.totalPages * resp.limit >= resp.totalLogs
           /\ (resp.totalPages - 1) * resp.limit < resp.totalLogs

\* the pages concatenate whenever the limit asked is not negative
PagesConcatenateAtValidLimit ==
    (resp.status = "200" /\ (req.limit.int.nan \/ req.limit.int.n >= 0))
        => /\ PagesUpTo(resp.totalPages) = Selected
           /\ resp.totalLogs = Len(Selected)

\* ---------------------------------------------------------------- claims on the window

Given(p) == p.given

\* the one path the priority of the claim chooses for the request, as the
\* options it gives the log source at clock reading at
ByPriority(q, at) ==
    IF Given(q.since) \/ Given(q.until)
    THEN [since |-> IF Given(q.since) THEN Opt(seconds(q.since)) ELSE NoOpt,
          until |-> IF Given(q.until) THEN Opt(seconds(q.until)) ELSE NoOpt,
          tail |-> NoOpt]
    ELSE IF Given(q.timeRange) /\ q.timeRange.text \in TimeRanges
    THEN [since |-> Opt(Num((at \div 1000) - Delta(q.timeRange.text))),
          until |-> NoOpt, tail |-> NoOpt]
    ELSE IF Given(q.tail)
    THEN [since |-> NoOpt, until |-> NoOpt, tail |-> Opt(q.tail.int)]
    ELSE [since |-> NoOpt, until |-> NoOpt, tail |-> Opt(Num(DefaultTail))]

\* C18: for every combination of since, until, timeRange and tail the options
\* given to the log source follow one path, by priority: since / until alone
\* when one of them is given; else since = now - delta and no tail for a
\* timeRange of the list; else the tail that is given; else tail 100.
C18_WindowByPriority ==
    asked.called => asked = Asked(asked.at, ByPriority(req, asked.at))

\* the options follow the priority except when a timeRange outside the list
\* comes with a tail
WindowByPriorityUnlessUnknownRange ==
    (/\ asked.called
     /\ ~(/\ ~Given(req.since) /\ ~Given(req.until)
          /\ Given(req.timeRange) /\ req.timeRange.text \notin TimeRanges
          /\ Given(req.tail)))
        => asked = Asked(asked.at, ByPriority(req, asked.at))

\* the window parameters of the request that cannot be parsed
Unparsable(q) ==
    {f \in {"since", "until", "tail", "timeRange"} :
        \/ f = "since" /\ Given(q.since) /\ q.since.time.nan
        \/ f = "until" /\ Given(q.until) /\ q.until.time.nan
        \/ f = "tail" /\ Given(q.tail) /\ q.tail.int.nan
        \/ f = "timeRange" /\ Given(q.timeRange) /\ q.timeRange.text \notin TimeRanges}

\* C19: a request with a since or until that is no date, a tail that is no
\* number or a timeRange outside the list is answered by a validation error
\* that names such a field, and the log source is not called with the
\* malformed value.
C19_UnparsableWindowRejected ==
    (resp.status # "none" /\ Unparsable(req) # {})
        => /\ \E f \in Unparsable(req) : resp.status = "400: " \o f
           /\ ~(asked.called /\ (\/ Malformed(asked.since)
                                 \/ Malformed(asked.until)
                                 \/ Malformed(asked.tail)))

\* C20: the same request made twice on an unchanged log gets the same page
\* twice (the same records with the same id, timestamp, stream and message,
\* the same pagination), and the requests leave the connections, the streams
\* and the users file as they were at start.
C20_SameRequestSamePage ==
    /\ prev.status # "none" => resp = prev
    /\ resp.status # "none"
          => /\ usersFile = InitialFile
             /\ saves = 0
             /\ streams = <<>>
             /\ \A c \in Conns : authenticatedUser[c] = NoUser /\ currentStream[c] = 0

\* while the clock stays within one second, the second answer differs from
\* the first in nothing but the time part of the ids and the timestamp given
\* to lines that carry none
Timeless(p) ==
    [p EXCEPT !.logs = [i \in 1..Len(p.logs) |->
        [p.logs[i] EXCEPT !.id = <<0, @[2]>>,
                          !.timestamp = IF @ \in Timestamps THEN @ ELSE "now"]]]

SameRequestSamePageButTime ==
    prev.status # "none" => Timeless(resp) = Timeless(prev)

\* ---------------------------------------------------------------- claims on the user management

UserRoutes == {"users.list", "users.create", "users.update", "users.delete"}

\* the stored role of the user a good token names
RoleOf(userId, file) == file[findIndex(file, userId)].role

\* C27: a request to list, create, update or delete users that carries a good
\* token of a user whose stored role is not admin is answered 403, reads and
\* writes nothing, and the users file is as it was.
C27_NonAdminRefused ==
    [][(/\ lastOp'.op \in UserRoutes
        /\ GoodToken(lastOp'.ref, lastOp'.user, usersFile)
        /\ RoleOf(lastOp'.user, usersFile) # "admin")
          => /\ lastOp'.out = "403: Admin access required"
             /\ lastOp'.data = <<>>
             /\ usersFile' = usersFile
             /\ saves' = saves]_vars

\* C27 witness: user 2, stored with role user, asked to delete a user and got
\* 403
C27_Witness ==
    /\ lastOp.op = "users.delete"
    /\ lastOp.ref = <<"valid">>
    /\ lastOp.user = "2"
    /\ lastOp.out = "403: Admin access required"
    /\ RoleOf("2", usersFile) = "user"

Admins(file) == {j \in 1..Len(file) : file[j].role = "admin"}

\* C28: a delete that passed both middlewares and names the only admin of the
\* file is answered 400 'Cannot delete the last admin', one that names an id
\* no stored user has is answered 404, and both leave the file as it was.
C28_LastAdminAndMissingIdKept ==
    [][\A token \in Tokens, id \in UserIds :
          (/\ lastOp'.op = "users.delete"
           /\ adminMiddleware(authMiddleware(token, usersFile)).status = "next"
           /\ DeleteUser(token, id))
            => /\ (\A i \in 1..Len(usersFile) : usersFile[i].id # id)
                    => /\ lastOp'.out = "404: User not found"
                       /\ usersFile' = usersFile
                       /\ saves' = saves
               /\ (\E i \in Admins(usersFile) :
                       usersFile[i].id = id /\ Admins(usersFile) = {i})
                    => /\ lastOp'.out = "400: Cannot delete the last admin"
                       /\ usersFile' = usersFile
                       /\ saves' = saves]_vars

\* C28 witness: the delete of the only admin was refused and the admin is
\* still stored
C28_Witness ==
    /\ lastOp.op = "users.delete"
    /\ lastOp.out = "400: Cannot delete the last admin"
    /\ Cardinality(Admins(usersFile)) = 1

\* C30: the users file always holds a user whose role is admin.
C30_AlwaysAnAdmin == Admins(usersFile) # {}

\* ---------------------------------------------------------------- the decoder on its own

Payloads == { <<"T1", " ", "a">>, <<"b">> }

\* lines of a buffer: a frame of each marker with and without a timestamp, a
\* frame with no payload, unframed lines with a timestamp followed by one
\* space, by two spaces and by none, a plain line, a blank line
DecodeLines ==
    { Frame(m, p) : m \in {"0x00", "0x01", "0x02"}, p \in Payloads }
        \cup { Frame("0x01", <<>>), <<"T1", " ", "a">>, <<"T2", " ", " ", "a">>,
               <<"T1", "a">>, <<"b">>, <<" ">> }

DecodeSources ==
    UNION { [1..k -> {Entry(0, l) : l \in DecodeLines}] : k \in 0..MaxLines }

DecodeNext == GetLogsPage \/ Tick

\* the whole buffer is decoded: no window, no search, the first page
SpecDecode == QueryInit({NoQuery}, DecodeSources, {FALSE}) /\ [][DecodeNext]_vars

\* ---------------------------------------------------------------- claims on the decoder

\* the lines of the buffer that are not blank, as the decoder numbers them
RawLines == SelectSeq([i \in 1..Len(src) |-> src[i].line], LAMBDA l : trim(l) # <<>>)

\* the line a record was decoded from
LineOf(r) == RawLines[r.id[2] + 1]

Framed(line) == charCode(line[1]) <= 2

\* C25: the record of a framed line has stream stderr when the marker is 2
\* and stdout when it is 0 or 1, with or without a timestamp in the payload,
\* and the records are in the order of their lines.
C25_StreamFromMarker ==
    resp.status = "200"
        => /\ \A k \in 1..Len(resp.logs) :
                Framed(LineOf(resp.logs[k]))
                    => resp.logs[k].stream =
                          IF charCode(LineOf(resp.logs[k])[1]) = 2 THEN "stderr" ELSE "stdout"
           /\ \A k \in 1..(Len(resp.logs) - 1) :
                resp.logs[k].id[2] < resp.logs[k + 1].id[2]

\* the records of the buffer are in the order of their lines
DecodedInLineOrder ==
    resp.status = "200"
        => \A k \in 1..(Len(resp.logs) - 1) : resp.logs[k].id[2] < resp.logs[k + 1].id[2]

\* the stream follows the marker for the frames whose payload starts with a
\* timestamp
StreamFromMarkerWhenStamped ==
    resp.status = "200"
        => \A k \in 1..Len(resp.logs) :
              (/\ Framed(LineOf(resp.logs[k]))
               /\ Len(LineOf(resp.logs[k])) > 8
               /\ LineOf(resp.logs[k])[9] \in Timestamps)
                  => resp.logs[k].stream =
                        IF charCode(LineOf(resp.logs[k])[1]) = 2 THEN "stderr" ELSE "stdout"

\* what follows the timestamp of a line and the one space that separates
\* the two
Remainder(line) ==
    IF Len(line) > 1 /\ line[2] = " " THEN SubSeq(line, 3, Len(line))
    ELSE SubSeq(line, 2, Len(line))

\* C26: the record of an unframed line that starts with a timestamp has that
\* timestamp, and its message is the rest of the line, character for
\* character.
C26_MessageIsRemainder ==
    resp.status = "200"
        => \A k \in 1..Len(resp.logs) :
              (~Framed(LineOf(resp.logs[k])) /\ LineOf(resp.logs[k])[1] \in Timestamps)
                  => /\ resp.logs[k].timestamp = LineOf(resp.logs[k])[1]
                     /\ resp.logs[k].message = Remainder(LineOf(resp.logs[k]))

\* the timestamp of such a record is the prefix of its line
TimestampIsPrefix ==
    resp.status = "200"
        => \A k \in 1..Len(resp.logs) :
              (~Framed(LineOf(resp.logs[k])) /\ LineOf(resp.logs[k])[1] \in Timestamps)
                  => resp.logs[k].timestamp = LineOf(resp.logs[k])[1]

\* ---------------------------------------------------------------- the client's live list

\* ".slice(-2000)" of ws.onmessage
ClientKeep == 2000

\* live events that arrive beyond ClientKeep; the user changes container
\* only while no more than this many have arrived
MaxExtra == 2

\* the containers the client lists, by fullId
ClientContainers == {WEB, DB}

Arrivals == Len(received[WEB]) + Len(received[DB])

\* handleSelectContainer: the effect closes the socket of the container that
\* was selected and opens one for the new container; the lists are kept
SelectContainer(x) ==
    /\ x # selectedContainer
    /\ Arrivals <= MaxExtra
    /\ selectedContainer' = x
    /\ lastOp' = Op("select", "client", x, "none", "none", Null)
    /\ UNCHANGED <<wsVars, accessVars, seen, storeVars, queryVars, relayVars,
                   logsMap, received, lateVars>>

OnLog_KeepsOldest(record) ==
    /\ selectedContainer # Null
    /\ Arrivals < ClientKeep + MaxExtra
    /\ logsMap' = [logsMap EXCEPT ![selectedContainer] =
                     slice(Append(@, record), 0, ClientKeep)]
    /\ received' = [received EXCEPT ![selectedContainer] = Append(@, record)]
    /\ lastOp' = Op("onmessage", "client", selectedContainer, "none", "log", Null)
    /\ UNCHANGED <<wsVars, accessVars, seen, storeVars, queryVars, relayVars,
                   selectedContainer, lateVars>>

\* ws.onmessage with message.type === 'log': the record goes to the end of
\* the list of the selected container, which keeps its last ClientKeep
OnLog(record) ==
    /\ selectedContainer # Null
    /\ Arrivals < ClientKeep + MaxExtra
    /\ logsMap' = [logsMap EXCEPT ![selectedContainer] =
                     slice(Append(@, record), 0 - ClientKeep, Len(@) + 1)]
    /\ received' = [received EXCEPT ![selectedContainer] = Append(@, record)]
    /\ lastOp' = Op("onmessage", "client", selectedContainer, "none", "log", Null)
    /\ UNCHANGED <<wsVars, accessVars, seen, storeVars, queryVars, relayVars,
                   selectedContainer, lateVars>>

\* the first n live records have arrived for one container
Arrived(n) ==
    [x \in ClientContainers |-> IF x = WEB THEN [i \in 1..n |-> i] ELSE <<>>]

\* the client starts with no record, or is met when one record less than
\* ClientKeep has arrived for the container it shows
ClientInit ==
    /\ WsInit({})
    /\ lastOp = NoOp
    /\ acUser = NoUser
    /\ acRef = Null
    /\ acName = Null
    /\ cap = 0
    /\ seen = NoSeen
    /\ QuietStore
    /\ QuietQuery
    /\ QuietRelay
    /\ QuietLate
    /\ \E n \in {0, ClientKeep - 1} :
          /\ logsMap = Arrived(n)
          /\ received = Arrived(n)
          /\ selectedContainer = IF n = 0 THEN Null ELSE WEB

\* a record is told from the others by its number of arrival
ClientNext ==
    \/ \E x \in ClientContainers : SelectContainer(x)
    \/ OnLog(Arrivals + 1)

SpecClient == ClientInit /\ [][ClientNext]_vars

\* ---------------------------------------------------------------- claims on the client

\* C29: the list the client keeps for a container has at most 2000 records
\* and is the last (up to 2000) of the live records that arrived for that
\* container, in the order of arrival.
C29_ClientKeepsMostRecent ==
    \A x \in ClientContainers :
        /\ Len(logsMap[x]) <= ClientKeep
        /\ logsMap[x] = SubSeq(received[x],
                               IF Len(received[x]) > ClientKeep
                               THEN Len(received[x]) - ClientKeep + 1 ELSE 1,
                               Len(received[x]))

\* C29 witness: more than 2000 records arrived for a container, its list
\* holds 2000 and the oldest was let go
C29_Witness ==
    \E x \in ClientContainers :
        /\ Len(received[x]) > ClientKeep
        /\ Len(logsMap[x]) = ClientKeep
        /\ logsMap[x][1] # received[x][1]

\* ---------------------------------------------------------------- the relay of a live stream

\* records decoded from the chunks of the streams that a specification follows
MaxRecords == 2

\* streams that emit 'error' or 'end' in a specification
MaxSignals == 1

\* the filter of the subscribe message (data.filter): the subscribes followed
\* here ask for web with the filter "a" and for db with no filter
FilterSent(containerId) == IF containerId = WEB THEN <<"a">> ELSE <<>>

\* chunks a log stream can emit: a stdout frame "A" followed by a plain
\* line "b", and a plain line "b" alone
Chunks ==
    { << Frame("0x01", <<"T1", " ", "A">>), <<"b">> >>, << <<"T2", " ", "b">> >> }

\* what ws.send carried: from is the stream whose handler sent it and after
\* the number of streams opened by then; neither is on the wire
Event(conn, from, after, type, log) ==
    [conn |-> conn, from |-> from, after |-> after, type |-> type, log |-> log]

\* the streams that can still emit: not destroyed, not failed, not ended
Live == { sid \in 1..Len(streams) : streams[sid].open /\ sid \notin failed \cup ended }

StreamChunk_NoFilter(sid, chunk) ==
    LET c == streams[sid].conn
        logs == parseDockerLogs(chunk, now)
    IN  /\ sid \in Live
        /\ Len(fed) + Len(logs) <= MaxRecords
        /\ fed' = fed \o [i \in 1..Len(logs) |-> [from |-> sid, log |-> logs[i]]]
        /\ sent' = IF wsOpen(c)
                   THEN sent \o [i \in 1..Len(logs) |->
                                    Event(c, sid, Len(streams), "log", logs[i])]
                   ELSE sent
        /\ lastOp' = Op("data", c, streams[sid].containerId, streams[sid].user,
                        IF wsOpen(c) /\ logs # <<>> THEN "log" ELSE "none",
                        IF wsOpen(c) /\ logs # <<>> THEN streams[sid].containerId ELSE Null)
        /\ UNCHANGED <<wsVars, accessVars, seen, storeVars, queryVars, failed, ended,
                       clientVars, lateVars>>

\* stream.on('data', chunk): the chunk is decoded, and each record whose
\* message holds the filter goes out as a log event if the socket is open
StreamChunk(sid, chunk) ==
    LET c == streams[sid].conn
        logs == parseDockerLogs(chunk, now)
        out == searchFilter(logs, FilterSent(streams[sid].containerId))
    IN  /\ sid \in Live
        /\ Len(fed) + Len(logs) <= MaxRecords
        /\ fed' = fed \o [i \in 1..Len(logs) |-> [from |-> sid, log |-> logs[i]]]
        /\ sent' = IF wsOpen(c)
                   THEN sent \o [i \in 1..Len(out) |->
                                    Event(c, sid, Len(streams), "log", out[i])]
                   ELSE sent
        /\ lastOp' = Op("data", c, streams[sid].containerId, streams[sid].user,
                        IF wsOpen(c) /\ out # <<>> THEN "log" ELSE "none",
                        IF wsOpen(c) /\ out # <<>> THEN streams[sid].containerId ELSE Null)
        /\ UNCHANGED <<wsVars, accessVars, seen, storeVars, queryVars, failed, ended,
                       clientVars, lateVars>>

\* stream.on('error'): an error event if the socket is open; the handle and
\* the registry are not touched
StreamError(sid) ==
    LET c == streams[sid].conn IN
    /\ sid \in Live
    /\ Cardinality(failed \cup ended) < MaxSignals
    /\ failed' = failed \cup {sid}
    /\ sent' = IF wsOpen(c)
               THEN Append(sent, Event(c, sid, Len(streams), "error", Dropped))
               ELSE sent
    /\ lastOp' = Op("stream error", c, streams[sid].containerId, streams[sid].user,
                    IF wsOpen(c) THEN "error" ELSE "none", Null)
    /\ UNCHANGED <<wsVars, accessVars, seen, storeVars, queryVars, fed, ended, clientVars, lateVars>>

\* stream.on('end'): an end event if the socket is open; the handle and the
\* registry are not touched
StreamEnd(sid) ==
    LET c == streams[sid].conn IN
    /\ sid \in Live
    /\ Cardinality(failed \cup ended) < MaxSignals
    /\ ended' = ended \cup {sid}
    /\ sent' = IF wsOpen(c)
               THEN Append(sent, Event(c, sid, Len(streams), "end", Dropped))
               ELSE sent
    /\ lastOp' = Op("stream end", c, streams[sid].containerId, streams[sid].user,
                    IF wsOpen(c) THEN "end" ELSE "none", Null)
    /\ UNCHANGED <<wsVars, accessVars, seen, storeVars, queryVars, fed, failed, clientVars, lateVars>>

\* a token that verifies and names the stored admin
AdminToken == [kind |-> "valid", userId |-> "1"]

\* one client that authenticates as the admin and subscribes to web and db,
\* with the events of its streams
RelayNext ==
    \/ AuthMsg("c1", AdminToken)
    \/ \E r \in {WEB, DB} : SubscribeMsg("c1", r)
    \/ \E h \in BagToSet(pending["c1"]) : InspectResolve("c1", h)
    \/ \E h \in BagToSet(pending["c1"]) : LogsResolve("c1", h)
    \/ UnsubscribeMsg("c1")
    \/ Close("c1")
    \/ \E sid \in 1..Len(streams), chunk \in Chunks : StreamChunk(sid, chunk)
    \/ \E sid \in 1..Len(streams) : StreamError(sid)
    \/ \E sid \in 1..Len(streams) : StreamEnd(sid)

SpecRelay == InitWith(MaxStreams) /\ [][RelayNext]_vars

\* ---------------------------------------------------------------- claims on the relay

\* the records decoded from the chunks of stream sid, in order
Records(sid) ==
    LET own == SelectSeq(fed, LAMBDA f : f.from = sid)
    IN  [i \in 1..Len(own) |-> own[i].log]

Logs(events) == [i \in 1..Len(events) |-> events[i].log]

\* the log events sent on connection c since stream sid was opened
LogEventsSince(c, sid) ==
    Logs(SelectSeq(sent, LAMBDA e : e.conn = c /\ e.type = "log" /\ e.after >= sid))

\* the log events the handler of stream sid sent
LogEventsOf(sid) ==
    Logs(SelectSeq(sent, LAMBDA e : e.from = sid /\ e.type = "log"))

\* C21: while a connection is open and holds the stream of its subscription,
\* the log events sent on it since that stream was opened are the records
\* decoded from the stream's chunks whose message holds the subscription's
\* filter, each once and in the order decoded.
C21_EventsAreFilteredRecords ==
    \A c \in Conns :
        (/\ wsOpen(c)
         /\ currentStream[c] # 0
         /\ streams[currentStream[c]].open)
            => LogEventsSince(c, currentStream[c])
                 = searchFilter(Records(currentStream[c]),
                                FilterSent(streams[currentStream[c]].containerId))

\* each stream's own handler sends the stream's matching records, each once
\* and in order, while the socket is open
EachStreamRelaysItsMatches ==
    \A sid \in 1..Len(streams) :
        (wsOpen(streams[sid].conn) /\ streams[sid].open)
            => LogEventsOf(sid)
                 = searchFilter(Records(sid), FilterSent(streams[sid].containerId))

\* the registry names stream sid
Registered(sid) == \E r \in DOMAIN activeStreams : activeStreams[r] = sid

\* C22: a stream's error goes out as an event of type error, the socket
\* stays open, and the next subscribe that is granted on the connection
\* releases the failed stream: it is destroyed and out of the registry
\* before the new stream is asked for.
C22_FailedStreamReleased ==
    [][/\ lastOp'.op = "stream error" /\ wsOpen(lastOp'.conn)
          => /\ Len(sent') = Len(sent) + 1
             /\ sent'[Len(sent')].type = "error"
             /\ wsState' = wsState
       /\ lastOp'.op = "accept"
          => \A sid \in failed :
                streams[sid].conn = lastOp'.conn
                    => ~streams'[sid].open /\ ~Registered(sid)']_vars

\* the error of a stream is sent as an error event and closes nothing
ErrorIsTypedEvent ==
    [][lastOp'.op = "stream error" /\ wsOpen(lastOp'.conn)
          => /\ Len(sent') = Len(sent) + 1
             /\ sent'[Len(sent')].type = "error"
             /\ wsState' = wsState]_vars

\* a granted subscribe destroys the failed stream that the connection holds
HeldFailedStreamDestroyed ==
    [][lastOp'.op = "accept"
          => \A sid \in failed :
                sid = currentStream[lastOp'.conn] => ~streams'[sid].open]_vars

\* ---------------------------------------------------------------- two connections

\* two clients, both connected
PairInit ==
    /\ WsInit(Conns)
    /\ lastOp = NoOp
    /\ acUser = NoUser
    /\ acRef = Null
    /\ acName = Null
    /\ cap = MaxStreams - 1
    /\ Quiet

\* both authenticate as the admin and subscribe to web and db; a stream can
\* end
PairNext ==
    \/ \E c \in Conns : AuthMsg(c, AdminToken)
    \/ \E c \in Conns, r \in {WEB, DB} : SubscribeMsg(c, r)
    \/ \E c \in Conns : \E h \in BagToSet(pending[c]) : InspectResolve(c, h)
    \/ \E c \in Conns : \E h \in BagToSet(pending[c]) : LogsResolve(c, h)
    \/ \E c \in Conns : UnsubscribeMsg(c)
    \/ \E c \in Conns : Close(c)
    \/ \E sid \in 1..Len(streams) : StreamEnd(sid)

SpecPair == PairInit /\ [][PairNext]_vars

\* ---------------------------------------------------------------- claims on two connections

\* C23: a step of a handler of one connection (auth, subscribe and its
\* continuations, unsubscribe, close) leaves the user, the container
\* reference, the stream handle and the streams of every other connection as
\* they were.
C23_OtherConnectionsUntouched ==
    [][\A c \in Conns :
          lastOp'.conn = c
            => \A d \in Conns \ {c} :
                  /\ authenticatedUser'[d] = authenticatedUser[d]
                  /\ currentContainerId'[d] = currentContainerId[d]
                  /\ currentStream'[d] = currentStream[d]
                  /\ wsState'[d] = wsState[d]
                  /\ \A sid \in 1..Len(streams) :
                        streams[sid].conn = d => streams'[sid] = streams[sid]]_vars

\* C23 witness: both connections had a stream of web; c1 unsubscribed, which
\* took web out of the registry, and c2 still holds its open stream of web
C23_Witness ==
    /\ lastOp.op = "unsubscribe"
    /\ lastOp.conn = "c1"
    /\ \E sid \in 1..Len(streams) : streams[sid].conn = "c1" /\ ~streams[sid].open
    /\ activeStreams[WEB] = 0
    /\ currentStream["c2"] # 0
    /\ streams[currentStream["c2"]].open
    /\ streams[currentStream["c2"]].containerId = WEB
    /\ currentContainerId["c2"] = WEB

\* C24: the registry names exactly the streams that are open and have not
\* ended or failed, each under its container.
C24_RegistryIsOpenStreams ==
    /\ \A sid \in Live : activeStreams[streams[sid].containerId] = sid
    /\ \A r \in DOMAIN activeStreams : activeStreams[r] # 0 => activeStreams[r] \in Live

\* ---------------------------------------------------------------- claims on pages out of range

\* C37: a page whose number is not in 1..totalPages holds no records.
C37_NoRecordsOutsidePages ==
    (resp.status = "200" /\ ~(resp.page >= 1 /\ resp.page <= resp.totalPages))
        => resp.logs = <<>>

\* the same with a limit of at least 1: a negative page still breaks it
NoRecordsOutsidePagesAtValidLimit ==
    (/\ resp.status = "200"
     /\ resp.limit >= 1
     /\ ~(resp.page >= 1 /\ resp.page <= resp.totalPages))
        => resp.logs = <<>>

\* a page beyond the last one holds no records
NoRecordsBeyondLastPage ==
    (resp.status = "200" /\ resp.limit >= 1 /\ resp.page > resp.totalPages)
        => resp.logs = <<>>

\* ---------------------------------------------------------------- claims on a second auth message

\* C33: a connection that has an open stream is authenticated.
C33_OpenStreamOnlyWhileAuthenticated ==
    \A c \in Conns : OpenStreams(c) # {} => authenticatedUser[c] # NoUser

\* C34: the user authenticated on a connection is the user whose access
\* check granted each of its open streams.
C34_StreamOfCurrentPrincipal ==
    \A c \in Conns :
        \A sid \in OpenStreams(c) : streams[sid].user = authenticatedUser[c].id

\* ---------------------------------------------------------------- the last message of a client

\* data.action === 'unsubscribe' as the last message the client sends
LastUnsubscribe(c) ==
    /\ wsOpen(c)
    /\ c \notin silent
    /\ authenticatedUser[c] # NoUser
    /\ ReleaseCurrent(c)
    /\ IF currentStream[c] # 0
       THEN /\ currentStream' = [currentStream EXCEPT ![c] = 0]
            /\ currentContainerId' = [currentContainerId EXCEPT ![c] = Null]
       ELSE UNCHANGED <<currentStream, currentContainerId>>
    /\ lastOp' = Op("unsubscribe", c, Null, authenticatedUser[c].id, "none", Null)
    /\ silent' = silent \cup {c}
    /\ UNCHANGED <<authenticatedUser, wsState, pending, accessVars, seen, storeVars,
                   queryVars, relayVars, clientVars, openSockets, pager, hashing>>

\* one client: its messages until the last one, the awaits of its handlers,
\* its disconnect and the data of its streams
UnsubNext ==
    \/ "c1" \notin silent /\ AuthMsg("c1", AdminToken)
    \/ \E r \in {WEB, DB} : "c1" \notin silent /\ SubscribeMsg("c1", r)
    \/ "c1" \notin silent /\ UnsubscribeMsg("c1")
    \/ LastUnsubscribe("c1")
    \/ \E h \in BagToSet(pending["c1"]) : InspectResolve("c1", h)
    \/ \E h \in BagToSet(pending["c1"]) : LogsResolve("c1", h)
    \/ \E h \in BagToSet(pending["c1"]) : LogsReject("c1", h)
    \/ Close("c1")
    \/ \E sid \in 1..Len(streams) : StreamData(sid)

SpecUnsub == InitWith(MaxStreams) /\ [][UnsubNext]_vars

\* C35: when the last message of a client was unsubscribe and no handler
\* of the connection is suspended any more, the connection has no open
\* stream (so no log event can follow).
C35_NoStreamAfterLastUnsubscribe ==
    \A c \in silent : pending[c] = EmptyBag => OpenStreams(c) = {}

\* the same for a last unsubscribe that no subscribe was awaiting: no
\* handler was ever suspended while another or an unsubscribe ran
NoLogEventAfterQuietUnsubscribe ==
    [][\A c \in Conns :
          (/\ lastOp'.op = "unsubscribe"
           /\ lastOp'.conn = c
           /\ c \in silent'
           /\ pending[c] = EmptyBag
           /\ OpenStreams(c) \subseteq {currentStream[c]})
            => OpenStreams(c)' = {}]_vars

\* ---------------------------------------------------------------- user handlers with their await

\* a create or update handler suspended at "await bcrypt.hash": data is the
\* object that loadUsers returned to it, with what it changed before the await
Hashing(route, token, data, id, body) ==
    [route |-> route, token |-> token, data |-> data, id |-> id, body |-> body]

\* requests that carry a password: two new users, and for an update a
\* username that is taken, a new allow-list
HashCreateBodies == { Body("ops", TRUE, "", FALSE), Body("qa", TRUE, "", FALSE) }

HashUpdateBodies == { Body("admin", TRUE, "", FALSE), Body("", TRUE, "", TRUE) }

\* the other variables of a step of a user handler
HashFrame ==
    UNCHANGED <<wsVars, accessVars, seen, queryVars, relayVars, clientVars,
                openSockets, pager, silent>>

\* POST /api/users up to "await bcrypt.hash(password, 10)"
CreateBegin(token, body) ==
    LET a == adminMiddleware(authMiddleware(token, usersFile)) IN
    IF a.status # "next"
    THEN Respond("users.create", token, Reads(a.status, <<>>))
    ELSE IF body.username = "" \/ ~body.password
    THEN Respond("users.create", token, Reads("400: Username and password required", <<>>))
    ELSE IF \E i \in 1..Len(usersFile) : usersFile[i].username = body.username
    THEN Respond("users.create", token,
                 Reads("400: Username already exists", <<"users.read">>))
    ELSE /\ BagCardinality(hashing) + saves <= MaxSaves
         /\ hashing' = hashing (+) SetToBag({Hashing("users.create", token, usersFile,
                                                     "", body)})
         /\ lastOp' = Op("users.create", "http", <<token.kind>>, token.userId,
                         "await hash", <<"users.read">>)
         /\ UNCHANGED <<usersFile, saves, now>>
         /\ HashFrame

\* POST /api/users after the await: push to the loaded object, saveUsers, 201
CreateFinish(h) ==
    LET newUser == StoredUser(TimeId(now), h.body.username,
                              IF h.body.role = "" THEN "user" ELSE h.body.role, TRUE,
                              IF h.body.hasAllowed THEN h.body.allowedContainers ELSE <<>>)
    IN  /\ h.route = "users.create"
        /\ hashing' = hashing (-) SetToBag({h})
        /\ usersFile' = Append(h.data, newUser)
        /\ saves' = saves + 1
        /\ lastOp' = Op("users.create", "http", <<h.token.kind>>, h.token.userId,
                        "201", <<"users.write">>)
        /\ UNCHANGED now
        /\ HashFrame

\* PUT /api/users/:id with a password, up to "await bcrypt.hash": the
\* username is written to the loaded object before the await
UpdateBegin(token, id, body) ==
    LET a == adminMiddleware(authMiddleware(token, usersFile))
        i == findIndex(usersFile, id)
        named == [usersFile EXCEPT ![i].username =
                     IF body.username # "" THEN body.username ELSE @]
    IN
    IF a.status # "next"
    THEN Respond("users.update", token, Reads(a.status, <<>>))
    ELSE IF i = 0
    THEN Respond("users.update", token, Reads("404: User not found", <<"users.read">>))
    ELSE /\ body.password
         /\ BagCardinality(hashing) + saves <= MaxSaves
         /\ hashing' = hashing (+) SetToBag({Hashing("users.update", token, named, id, body)})
         /\ lastOp' = Op("users.update", "http", <<token.kind>>, token.userId,
                         "await hash", <<"users.read">>)
         /\ UNCHANGED <<usersFile, saves, now>>
         /\ HashFrame

\* PUT /api/users/:id after the await: role and allow-list are written to
\* the loaded object, saveUsers, 200
UpdateFinish(h) ==
    LET i == findIndex(h.data, h.id)
        updated == [h.data[i] EXCEPT
                      !.role = IF h.body.role # "" THEN h.body.role ELSE @,
                      !.hasAllowed = IF h.body.hasAllowed THEN TRUE ELSE @,
                      !.allowedContainers =
                          IF h.body.hasAllowed THEN h.body.allowedContainers ELSE @]
    IN  /\ h.route = "users.update"
        /\ hashing' = hashing (-) SetToBag({h})
        /\ usersFile' = [h.data EXCEPT ![i] = updated]
        /\ saves' = saves + 1
        /\ lastOp' = Op("users.update", "http", <<h.token.kind>>, h.token.userId,
                        "200", <<"users.write">>)
        /\ UNCHANGED now
        /\ HashFrame

\* the admin creates, updates and deletes users; the requests overlap at
\* the await of the hash
HashNext ==
    \/ \E body \in HashCreateBodies : CreateBegin(AdminToken, body)
    \/ \E h \in BagToSet(hashing) : CreateFinish(h)
    \/ \E id \in UserIds, body \in HashUpdateBodies : UpdateBegin(AdminToken, id, body)
    \/ \E h \in BagToSet(hashing) : UpdateFinish(h)
    \/ \E id \in UserIds : DeleteUser(AdminToken, id)
    \/ Tick

SpecHash == AuthInit /\ [][HashNext]_vars


\* C31: after any sequence of create and update operations, sequential or
\* overlapping, no two stored users have the same username and no two have
\* the same id.
C31_UniqueUsernamesAndIds ==
    \A i, j \in 1..Len(usersFile) :
        i # j => /\ usersFile[i].username # usersFile[j].username
                 /\ usersFile[i].id # usersFile[j].id

\* the part of C31 that the create route checks by itself: no save of a
\* create stores a username that the object it loaded already held
CreateStoresFreshUsername ==
    [][(lastOp'.op = "users.create" /\ lastOp'.out = "201") =>
          \A i \in 1..(Len(usersFile') - 1) :
              usersFile'[i].username # usersFile'[Len(usersFile')].username]_vars

\* the stored users other than the one with id t that a save drops
Lost(t) ==
    { i \in 1..Len(usersFile) :
        /\ usersFile[i].id # t
        /\ \A j \in 1..Len(usersFile') : usersFile'[j] # usersFile[i] }

\* the users other than the one with id t that a save brings back
Back(t) ==
    { j \in 1..Len(usersFile') :
        /\ usersFile'[j].id # t
        /\ \A i \in 1..Len(usersFile) : usersFile[i] # usersFile'[j] }

\* C32: when user-management requests overlap at the await of the hash, the
\* stored users reflect all of them: the save of an acknowledged create or
\* update changes its own user only, so that no user stored by another
\* acknowledged request is lost and no deleted user comes back.
C32_SaveReflectsOtherRequests ==
    [][(lastOp'.op \in {"users.create", "users.update"} /\ lastOp'.out \in {"201", "200"}) =>
          \E t \in { usersFile'[j].id : j \in 1..Len(usersFile') } :
              Lost(t) = {} /\ Back(t) = {}]_vars


\* the id half of C31 alone: two creates that are saved within the same
\* millisecond get the same Date.now() id
UniqueIds ==
    \A i, j \in 1..Len(usersFile) : i # j => usersFile[i].id # usersFile[j].id


\* ---------------------------------------------------------------- revocation while a stream is open

\* the unexpired token of user 2, who may read web
DevToken == [kind |-> "valid", userId |-> "2"]

\* PUT /api/users/2 with an allow-list that no longer holds web
Revoking == [Body("", FALSE, "", TRUE) EXCEPT !.allowedContainers = <<DB>>]

\* user 2 authenticates on the socket while the file is the one loadUsers
\* stands for, subscribes and reads; the admin deletes the user or takes web
\* from its allow-list; user 2 also asks the historical route
RevokeNext ==
    \/ saves = 0 /\ AuthMsg("c1", DevToken)
    \/ \E r \in {WEB, DB} : SubscribeMsg("c1", r)
    \/ \E h \in BagToSet(pending["c1"]) : InspectResolve("c1", h)
    \/ \E h \in BagToSet(pending["c1"]) : LogsResolve("c1", h)
    \/ UnsubscribeMsg("c1")
    \/ \E sid \in 1..Len(streams) : StreamData(sid)
    \/ DeleteUser(AdminToken, "2")
    \/ UpdateUser(AdminToken, "2", Revoking)
    \/ \E id \in {WEB, DB} : GetLogs(DevToken, id)

SpecRevoke == InitWith(MaxStreams) /\ [][RevokeNext]_vars

\* the file holds the user and its entry passes the access check for the container
Entitled(userId, id, file) ==
    \E i \in 1..Len(file) :
        /\ file[i].id = userId
        /\ QueryCheck(file[i], id, IF Exists(id) THEN inspectName(id) ELSE Null)

\* C36: after a principal is deleted from the file or a container is taken
\* from its allow-list, no record of that container is delivered to it: a
\* historical query answered 200 and a log event sent on a stream both go to
\* a user whom the file of that moment entitles to the container.
C36_DeliveryOnlyWhileEntitled ==
    [][/\ (lastOp'.op = "data" /\ lastOp'.out = "log")
            => Entitled(lastOp'.user, lastOp'.ref, usersFile')
       /\ \A id \in {WEB, DB} :
            (lastOp'.op = "logs" /\ lastOp'.out = "200" /\ GetLogs(DevToken, id))
            => Entitled(DevToken.userId, id, usersFile')]_vars

\* the historical half of C36 holds: the route looks the user up in the file
\* at every request
QueryOnlyWhileEntitled ==
    [][\A id \in {WEB, DB} :
            (lastOp'.op = "logs" /\ lastOp'.out = "200" /\ GetLogs(DevToken, id))
            => Entitled(DevToken.userId, id, usersFile')]_vars

\* the historical route refuses user 2 after the revocation
RevokedQueryRefused ==
    [][\A id \in {WEB, DB} :
            (lastOp'.op = "logs" /\ GetLogs(DevToken, id)
             /\ ~Entitled(DevToken.userId, id, usersFile))
            => lastOp'.out \in {"401: User not found",
                                "403: Access denied to this container"}]_vars


\* ---------------------------------------------------------------- client: sockets and selection

\* a live record as the client sees it arrive: from is the container that the
\* delivering socket subscribed to, n tells the records apart
LiveRecord(from) == [from |-> from, n |-> Arrivals + 1]

\* the passive effects after setSelectedContainer(x), run in one piece: the
\* cleanup of the socket effect closes the socket of the old container, the
\* ref effect stores x in selectedContainerRef, the socket effect opens a
\* socket that will subscribe to x. The handlers read the ref only, so the
\* click is seen by them when these effects have run
SelectLive_KeepsOldSocket(x) ==
    /\ x # selectedContainer
    /\ openSockets' = openSockets \cup {x}
    /\ selectedContainer' = x
    /\ lastOp' = Op("select", "client", x, "none", "none", Null)
    /\ UNCHANGED <<wsVars, accessVars, seen, storeVars, queryVars, relayVars,
                   logsMap, received, pager, silent, hashing>>

SelectLive(x) ==
    /\ x # selectedContainer
    /\ openSockets' = {x}
    /\ selectedContainer' = x
    /\ lastOp' = Op("select", "client", x, "none", "none", Null)
    /\ UNCHANGED <<wsVars, accessVars, seen, storeVars, queryVars, relayVars,
                   logsMap, received, pager, silent, hashing>>

\* the time range leaves 'live', or the connection is lost: the socket is
\* closed and none is opened; the selection stays
Teardown ==
    /\ openSockets # {}
    /\ openSockets' = {}
    /\ lastOp' = Op("teardown", "client", selectedContainer, "none", "none", Null)
    /\ UNCHANGED <<wsVars, accessVars, seen, storeVars, queryVars, relayVars,
                   clientVars, pager, silent, hashing>>

\* the time range returns to 'live': the socket effect opens a socket for the
\* selected container
BackToLive ==
    /\ selectedContainer # Null
    /\ openSockets = {}
    /\ openSockets' = {selectedContainer}
    /\ lastOp' = Op("live", "client", selectedContainer, "none", "none", Null)
    /\ UNCHANGED <<wsVars, accessVars, seen, storeVars, queryVars, relayVars,
                   clientVars, pager, silent, hashing>>

\* a log event of the socket that subscribed to x reaches the browser: the
\* message event is dispatched only while that socket is OPEN, and then
\* onmessage files the record under selectedContainerRef.current; an event
\* of a socket that was closed is dropped
Deliver(x) ==
    IF x \in openSockets
    THEN /\ Arrivals < MaxExtra + 1
         /\ OnLog(LiveRecord(x))
    ELSE /\ lastOp' = Op("late", "client", x, "none", "dropped", Null)
         /\ UNCHANGED <<wsVars, paramVars>>

LateInit ==
    /\ WsInit({})
    /\ lastOp = NoOp
    /\ acUser = NoUser
    /\ acRef = Null
    /\ acName = Null
    /\ cap = 0
    /\ Quiet

LateNext ==
    \/ \E x \in ClientContainers : SelectLive(x)
    \/ Teardown
    \/ BackToLive
    \/ \E x \in ClientContainers : Deliver(x)

SpecLate == LateInit /\ [][LateNext]_vars

\* C38: a live log event is appended only to the list of the container that
\* the delivering socket subscribed to: whatever the order of selection
\* changes, teardowns and late events, no record of one container is stored in
\* the list of another.
C38_RecordsInOwnList ==
    \A x \in ClientContainers : \A i \in 1..Len(logsMap[x]) : logsMap[x][i].from = x

\* C38 witness: both lists hold records, and an event of the socket of the
\* container that is no longer selected has just arrived late
C38_Witness ==
    /\ lastOp.op = "late"
    /\ selectedContainer # Null
    /\ lastOp.ref # selectedContainer
    /\ \A x \in ClientContainers : logsMap[x] # <<>>

\* every event that a handler saw came while the ref named its socket's container
HandledWhileSelected ==
    [][lastOp'.op = "onmessage" => openSockets = {selectedContainer}]_vars


\* ---------------------------------------------------------------- client: load more

MaxPages == 3

MaxFlying == 2

\* the records of one page of a query, as one entry of the list
PageOf(query, page) == [query |-> query, page |-> page]

\* isLoading, and the pagination of the selected container, as state holds them
Shown == [isLoading |-> pager.isLoading, page |-> pager.page, hasMore |-> pager.hasMore]

\* the first page is on screen: fetchLogsByTimeRange loaded it for a time
\* range, or handleSearch loaded it for a time range and a search term
PagerInit ==
    /\ WsInit({})
    /\ lastOp = NoOp
    /\ acUser = NoUser
    /\ acRef = Null
    /\ acName = Null
    /\ cap = 0
    /\ seen = NoSeen
    /\ QuietStore
    /\ QuietQuery
    /\ QuietRelay
    /\ openSockets = {}
    /\ silent = {}
    /\ hashing = EmptyBag
    /\ selectedContainer = WEB
    /\ received = [x \in ClientContainers |-> <<>>]
    /\ \E query \in {"range", "range+search"} :
          /\ logsMap = [x \in ClientContainers |->
                          IF x = WEB THEN <<PageOf(query, 1)>> ELSE <<>>]
          /\ pager = [query |-> query, isLoading |-> FALSE, page |-> 1, hasMore |-> TRUE,
                      rendered |-> [isLoading |-> FALSE, page |-> 1, hasMore |-> TRUE],
                      flying |-> EmptyBag]

\* the other variables of a step of the pager
PagerFrame ==
    UNCHANGED <<wsVars, accessVars, seen, storeVars, queryVars, relayVars,
                selectedContainer, received, openSockets, silent, hashing>>

\* the click on "load more" or the scroll to the top: handleScroll and
\* handleLoadMore test isLoading and the pagination of the render they were
\* made in; fetchLogsByTimeRange sets isLoading and asks for the next page of
\* the time range, without the search term
LoadMore ==
    /\ ~pager.rendered.isLoading
    /\ pager.rendered.hasMore
    /\ BagCardinality(pager.flying) < MaxFlying
    /\ Len(logsMap[selectedContainer]) + BagCardinality(pager.flying) <= MaxPages
    /\ pager' = [pager EXCEPT !.isLoading = TRUE,
                              !.flying = @ (+) SetToBag({pager.rendered.page + 1})]
    /\ lastOp' = Op("loadMore", "client", selectedContainer, "none",
                    ToString(pager.rendered.page + 1), Null)
    /\ UNCHANGED logsMap
    /\ PagerFrame

\* the response of page p: its records go to the end of the list, the
\* pagination becomes the response's, isLoading is cleared
PageResponse(p) ==
    /\ BagIn(p, pager.flying)
    /\ logsMap' = [logsMap EXCEPT ![selectedContainer] = Append(@, PageOf("range", p))]
    /\ pager' = [pager EXCEPT !.isLoading = FALSE, !.page = p, !.hasMore = p < MaxPages,
                              !.flying = @ (-) SetToBag({p})]
    /\ lastOp' = Op("page", "client", selectedContainer, "none", ToString(p), Null)
    /\ PagerFrame

\* the fetch of page p fails: the catch logs, finally clears isLoading
PageFails(p) ==
    /\ BagIn(p, pager.flying)
    /\ pager' = [pager EXCEPT !.isLoading = FALSE, !.flying = @ (-) SetToBag({p})]
    /\ lastOp' = Op("page", "client", selectedContainer, "none", "failed", Null)
    /\ UNCHANGED logsMap
    /\ PagerFrame

\* React renders: the handlers are made again from the state
Render ==
    /\ pager.rendered # Shown
    /\ pager' = [pager EXCEPT !.rendered = Shown]
    /\ lastOp' = Op("render", "client", selectedContainer, "none", "none", Null)
    /\ UNCHANGED logsMap
    /\ PagerFrame

PagerNext ==
    \/ LoadMore
    \/ \E p \in 1..(MaxPages + 1) : PageResponse(p)
    \/ \E p \in 1..(MaxPages + 1) : PageFails(p)
    \/ Render

SpecPager == PagerInit /\ [][PagerNext]_vars

\* pages 1..k of a query, in order
FirstPages(query, k) == [i \in 1..k |-> PageOf(query, i)]

\* C39: after any sequence of load-more triggers, two of them before the
\* first response included, the list of the selected container is the
\* concatenation of pages 1..k of the current query for some k, each page
\* once and in increasing order.
C39_ListIsFirstPagesOfQuery ==
    \E k \in 1..Len(logsMap[selectedContainer]) :
        logsMap[selectedContainer] = FirstPages(pager.query, k)

\* C39 without a search term: the list still fails to be pages 1..k when two
\* triggers come before a render
RangeListIsFirstPages ==
    pager.query = "range" =>
        \E k \in 1..Len(logsMap[selectedContainer]) :
            logsMap[selectedContainer] = FirstPages("range", k)

====
